---- MODULE Spec2Model ----
(***************************************************************************)
(* A model of the job orchestration engine of the AI model scanner:        *)
(* app/job_manager.py (JobManager: index, queue, workers, pipeline),       *)
(* app/scanner.py (tool runners, evaluate_policy), app/utils.py and        *)
(* app/config.py.                                                          *)
(*                                                                         *)
(* The program is one asyncio event loop.  A coroutine runs without        *)
(* interruption until it suspends, so every action below is the code       *)
(* between two suspension points: queue.get() on an empty queue,           *)
(* asyncio.to_thread(...) around each tool, and asyncio.sleep(1).          *)
(* Acquiring self.lock never suspends: no coroutine suspends holding it.   *)
(***************************************************************************)
EXTENDS Integers, Sequences, FiniteSets, TLC

VARIABLES
    jobs,            \* keys of JobManager.jobs (an OrderedDict), in insertion order
    summary,         \* the ScanSummary object of each job identifier
    disk,            \* RESULTS_DIR/<id>/summary.json
    upload_dir,      \* UPLOADS_DIR/<id>: its files, or NoDir
    results_dir,     \* whether RESULTS_DIR/<id> exists
    job_queue,       \* JobManager.job_queue
    active_jobs,     \* JobManager.active_jobs
    workers_started, \* JobManager._workers_started
    worker,          \* each _worker task: where it is suspended, and its locals
    next_id,         \* the next fresh identifier (uuid4 never repeats)
    faults,          \* I/O failures so far
    restarts,        \* process restarts so far
    born,            \* identifiers created in this process lifetime
    enqueued,        \* how often each identifier was put on the queue
    dequeued,        \* how often each identifier was taken off the queue
    started,         \* identifiers in the order they were marked RUNNING
    tool_log,        \* per job: the tool invocations, <<tool, file>>, in order
    policy_ran,      \* per job: evaluate_policy was called for it
    caught,          \* per job: what _worker's "except Exception as e" caught, in order
    load_raised,     \* the job whose summary.json made JobManager() raise, if any
    worker_tasks,    \* how many _worker tasks asyncio.create_task has made
    calls,           \* what the callers of start_workers and delete_job saw
    verdict,         \* per job: the pass_fail evaluate_policy returned for it
    completed,       \* per job: _process_job ran to its last line
    results_log,     \* per job: what each tool did and the ToolResult made of it
    pol_results,     \* evaluate_policy's argument results
    pol_strict,      \* evaluate_policy's argument strict_policy
    pol_out          \* what evaluate_policy returned, or NotEvaluated

vars == <<jobs, summary, disk, upload_dir, results_dir, job_queue, active_jobs,
          workers_started, worker, next_id, faults, restarts, born, enqueued,
          dequeued, started, tool_log, policy_ran, caught, load_raised,
          worker_tasks, calls, verdict, completed, results_log, pol_results,
          pol_strict, pol_out>>

sched_vars == <<jobs, summary, disk, upload_dir, results_dir, job_queue,
                active_jobs, workers_started, worker, next_id, faults,
                restarts, born, enqueued, dequeued, started, tool_log,
                policy_ran, caught, load_raised, worker_tasks, calls,
                verdict, completed, results_log>>

hist_vars == <<verdict, completed, results_log>>

pol_vars == <<pol_results, pol_strict, pol_out>>

----------------------------------------------------------------------------
(* Bounds of the model.                                                    *)

MaxJobs == 3

MaxPipeJobs == 2

MaxFaults == 1

MaxRestarts == 1

MaxPolResults == 2

MaxScanJobs == 1

MaxCalls == 2

MaxApiJobs == 2

MaxFileJobs == 1

(* config.MAX_CONCURRENT_JOBS: the default of the environment variable.    *)
MAX_CONCURRENT_JOBS == 2

(* job_manager.py: top_findings = all_findings[:20].                       *)
TopFindingsLimit == 20

(* scanner.py: "; ".join(fail_reasons[:5]).                                *)
ReasonLimit == 5

JobIds == 1..MaxJobs

Workers == 1..MAX_CONCURRENT_JOBS

----------------------------------------------------------------------------
(* models.py                                                               *)

QUEUED == "queued"

RUNNING == "running"

SUCCEEDED == "succeeded"

FAILED == "failed"

JobStatus == {QUEUED, RUNNING, SUCCEEDED, FAILED}

Terminal == {SUCCEEDED, FAILED}

(* Optional[str] = None for pass_fail.                                     *)
NoVerdict == "none"

(* fail_reason is a sequence of reason parts; None is the empty one.       *)
NoReason == <<>>

(* A reason part: the text of one f-string or literal.  kind "finding" is  *)
(* f"{tool}: {severity} - {message}", kind "exit" one of the two exit-code *)
(* literals, kind "error" a failure's description.                         *)
Reason(kind, tool, severity, text) ==
    [kind |-> kind, tool |-> tool, severity |-> severity, text |-> text]

ErrorReason(text) == <<Reason("error", "", "", text)>>

NoModelFiles == "No model files found"

ErrWrite == "[Errno 28] No space left on device"

ErrNoDir == "[Errno 2] No such file or directory"

Finding(tool, severity, message) ==
    [tool |-> tool, severity |-> severity, message |-> message]

ToolResult(tool, version, exit_code, findings, error) ==
    [tool |-> tool, version |-> version, exit_code |-> exit_code,
     findings_count |-> Len(findings), findings |-> findings, error |-> error]

JobOptions(enable_picklescan, strict_policy, run_aisbom_on_fail) ==
    [enable_picklescan |-> enable_picklescan, strict_policy |-> strict_policy,
     run_aisbom_on_fail |-> run_aisbom_on_fail]

Tools == {"modelscan", "picklescan", "aisbom"}

NoVersion == "-"

(* Dict[str, int] = {}.                                                    *)
EmptyDict == [k \in {} |-> 0]

(* A faulty variant of ScanSummary: finished_at is set from the start.     *)
ScanSummaryFinished(job_id, options) ==
    [job_id |-> job_id, status |-> QUEUED, finished_at |-> TRUE,
     pass_fail |-> NoVerdict, fail_reason |-> NoReason, tools_run |-> <<>>,
     tool_versions |-> [t \in Tools |-> NoVersion], total_findings |-> 0,
     findings_by_severity |-> EmptyDict,
     findings_by_tool |-> [t \in Tools |-> -1], top_findings |-> <<>>,
     options |-> options]

(* ScanSummary as create_job builds it: the defaults of the model class.   *)
ScanSummary(job_id, options) ==
    [job_id |-> job_id, status |-> QUEUED, finished_at |-> FALSE,
     pass_fail |-> NoVerdict, fail_reason |-> NoReason, tools_run |-> <<>>,
     tool_versions |-> [t \in Tools |-> NoVersion], total_findings |-> 0,
     findings_by_severity |-> EmptyDict,
     findings_by_tool |-> [t \in Tools |-> -1], top_findings |-> <<>>,
     options |-> options]

----------------------------------------------------------------------------
(* utils.py, config.py: file extensions.  A file is known by its extension *)
(* class: "pkl" is in PICKLE_EXTENSIONS (and SUPPORTED_EXTENSIONS), "onnx" *)
(* in SUPPORTED_EXTENSIONS only, "txt" in neither.                         *)

PICKLE_EXTENSIONS == {"pkl"}

SUPPORTED_EXTENSIONS == {"pkl", "onnx"}

(* A faulty variant of is_pickle_format: every supported extension.        *)
is_pickle_format_supported(f) == f \in SUPPORTED_EXTENSIONS

is_pickle_format(f) == f \in PICKLE_EXTENSIONS

----------------------------------------------------------------------------
(* Sequence helpers.                                                       *)

Range(s) == {s[i] : i \in 1..Len(s)}

Min(a, b) == IF a < b THEN a ELSE b

Prefix(s, n) == SubSeq(s, 1, Min(n, Len(s)))

RECURSIVE Flatten(_)
Flatten(ss) ==
    IF ss = <<>> THEN <<>> ELSE Head(ss) \o Flatten(Tail(ss))

Remove(s, x) == SelectSeq(s, LAMBDA y : y # x)

----------------------------------------------------------------------------
(* scanner.py: evaluate_policy.                                            *)

(* "modelscan" in r / "picklescan" in r: a case-sensitive substring test   *)
(* on the reason's text.  The f-string of a finding holds the tool's name  *)
(* as the runner wrote it (lower case); the exit-code literals are         *)
(* "ModelScan found vulnerabilities" and "Picklescan detected malware",    *)
(* which hold neither lower-case name.  A finding's message holds a tool's *)
(* name when the message token is that name.                               *)
ReasonContains(r, word) ==
    /\ r.kind = "finding"
    /\ (r.tool = word \/ r.text = word)

ExitReason(tool) ==
    IF tool = "modelscan"
    THEN Reason("exit", "", "", "ModelScan found vulnerabilities")
    ELSE Reason("exit", "", "", "Picklescan detected malware")

(* A faulty variant of FindingReasons: only HIGH findings give a reason.   *)
RECURSIVE FindingReasonsHighOnly(_, _)
FindingReasonsHighOnly(tool, findings) ==
    IF findings = <<>> THEN <<>>
    ELSE (IF Head(findings).severity = "HIGH"
          THEN <<Reason("finding", tool, Head(findings).severity,
                        Head(findings).message)>>
          ELSE <<>>) \o FindingReasonsHighOnly(tool, Tail(findings))

(* for finding in result.findings: the HIGH / CRITICAL reasons.            *)
RECURSIVE FindingReasons(_, _)
FindingReasons(tool, findings) ==
    IF findings = <<>> THEN <<>>
    ELSE (IF Head(findings).severity \in {"HIGH", "CRITICAL"}
          THEN <<Reason("finding", tool, Head(findings).severity,
                        Head(findings).message)>>
          ELSE <<>>) \o FindingReasons(tool, Tail(findings))

(* A faulty variant of PolicyStep: the test on result.tool is left out, so *)
(* the SBOM generator's results count too.                                 *)
PolicyStepAnyTool(fail_reasons, result) ==
    LET withFindings ==
            fail_reasons \o FindingReasons(result.tool, result.findings)
    IN  IF /\ result.exit_code = 1
           /\ ~ \E i \in 1..Len(withFindings) :
                   ReasonContains(withFindings[i], result.tool)
        THEN Append(withFindings, ExitReason(result.tool))
        ELSE withFindings

(* One turn of "for result in results", from fail_reasons so far.          *)
PolicyStep(fail_reasons, result) ==
    IF result.tool \in {"modelscan", "picklescan"}
    THEN LET withFindings ==
                 fail_reasons \o FindingReasons(result.tool, result.findings)
         IN  IF /\ result.exit_code = 1
                /\ ~ \E i \in 1..Len(withFindings) :
                        ReasonContains(withFindings[i], result.tool)
             THEN Append(withFindings, ExitReason(result.tool))
             ELSE withFindings
    ELSE fail_reasons

RECURSIVE PolicyLoop(_, _)
PolicyLoop(fail_reasons, results) ==
    IF results = <<>> THEN fail_reasons
    ELSE PolicyLoop(PolicyStep(fail_reasons, Head(results)), Tail(results))

(* A faulty variant of evaluate_policy: strict_policy is not looked at.    *)
evaluate_policy_strict(results, strict_policy) ==
    LET fail_reasons == PolicyLoop(<<>>, results)
    IN  IF fail_reasons # <<>>
        THEN [pass_fail |-> "FAIL",
              fail_reason |-> Prefix(fail_reasons, ReasonLimit)]
        ELSE [pass_fail |-> "PASS", fail_reason |-> NoReason]

evaluate_policy(results, strict_policy) ==
    IF ~strict_policy
    THEN [pass_fail |-> "PASS", fail_reason |-> NoReason]
    ELSE LET fail_reasons == PolicyLoop(<<>>, results)
         IN  IF fail_reasons # <<>>
             THEN [pass_fail |-> "FAIL",
                   fail_reason |-> Prefix(fail_reasons, ReasonLimit)]
             ELSE [pass_fail |-> "PASS", fail_reason |-> NoReason]

----------------------------------------------------------------------------
(* Documents and directories.                                              *)

(* No summary.json in the results directory.                               *)
NoDoc == [status |-> "no file"]

(* A summary.json that load_json or the ScanSummary model rejects: a       *)
(* truncated write.                                                        *)
BadDoc == [status |-> "malformed"]

(* No ScanSummary object for the identifier in this process.               *)
NoSummary == [status |-> "absent"]

(* No read of a summary.json fails.                                        *)
NoReadFault == 0

(* The upload directory does not exist.                                    *)
NoDir == <<"no directory">>

(* A member file: its position in the order of materialisation, and its    *)
(* extension class.                                                        *)
FilesOf(dir) == [k \in 1..Len(dir) |-> [id |-> k, ext |-> dir[k]]]

Perms(n) == {p \in [1..n -> 1..n] : \A a, b \in 1..n : p[a] = p[b] => a = b}

(* upload_dir.iterdir(): the directory's entries in an order the file      *)
(* system chooses.                                                         *)
Iterdir(dir) ==
    {[k \in 1..Len(dir) |-> FilesOf(dir)[p[k]]] : p \in Perms(Len(dir))}

(* A faulty variant of SupportedFiles: no filter on the extension.         *)
SupportedFilesUnfiltered(entries) == entries

(* _process_job: get_file_extension(f.name) in config.SUPPORTED_EXTENSIONS *)
SupportedFiles(entries) ==
    SelectSeq(entries, LAMBDA f : f.ext \in SUPPORTED_EXTENSIONS)

----------------------------------------------------------------------------
(* The _worker tasks.  pc is the suspension point:                         *)
(*   "none"        the task does not exist (start_workers not called)      *)
(*   "idle"        await self.job_queue.get()                              *)
(*   "modelscan"   await asyncio.to_thread(run_modelscan, ...)             *)
(*   "picklescan"  await asyncio.to_thread(run_picklescan, ...)            *)
(*   "aisbom"      await asyncio.to_thread(generate_ai_sbom, ...)          *)
(*   "zip"         await asyncio.to_thread(create_artifacts_zip, ...)      *)
(*   "backoff"     await asyncio.sleep(1)                                  *)
(* i counts the member files from 1 (the code's enumerate counts from 0).  *)

WorkerAt(pc) ==
    [pc |-> pc, job_id |-> 0, model_files |-> <<>>, i |-> 0, results |-> <<>>,
     total_modelscan_findings |-> 0, total_picklescan_findings |-> 0,
     pass_fail |-> NoVerdict]

InPipeline == {"modelscan", "picklescan", "aisbom", "zip"}

(* job_manager = JobManager() returned: the module was imported and the    *)
(* application serves requests.                                            *)
manager_up == load_raised = NoReadFault

(* What the callers of this process have seen: how many start_workers and  *)
(* delete_job calls returned, and the argument and the return value of the *)
(* last delete_job call.  Calls whose caller is not followed leave it as   *)
(* it is.                                                                  *)
NoCalls == [starts |-> 0, deletes |-> 0, job_id |-> 0, ret |-> FALSE]

Holds(w, j) == worker[w].pc \in InPipeline /\ worker[w].job_id = j

----------------------------------------------------------------------------
(* I/O outcomes.  A write succeeds, fails leaving the old file ("fail":    *)
(* open() raised), or fails leaving a truncated file ("corrupt": the write *)
(* raised after open() truncated it).                                      *)

IoOutcomes == {"ok", "fail", "corrupt"}

(* A faulty variant of Ctx: the worker takes the identifier to be a key of *)
(* self.jobs without looking it up.                                        *)
CtxNoLookup(j) ==
    [s |-> summary[j], doc |-> disk[j], indexed |-> TRUE,
     faults |-> faults, raised |-> FALSE, err |-> "", caught |-> <<>>]

(* The part of the state one job's checkpoint code reads and writes:       *)
(* s the ScanSummary object, doc its summary.json, indexed whether the     *)
(* identifier is a key of self.jobs, raised/err a propagating exception.   *)
Ctx(j) ==
    [s |-> summary[j], doc |-> disk[j], indexed |-> j \in Range(jobs),
     faults |-> faults, raised |-> FALSE, err |-> "", caught |-> <<>>]

(* A faulty variant of _save_summary: a failing write is logged and the    *)
(* caller goes on.                                                         *)
save_summary_logs_error(c, j, o) ==
    IF results_dir[j] /\ o = "ok"
    THEN [c EXCEPT !.doc = c.s, !.indexed = TRUE]
    ELSE [c EXCEPT !.indexed = TRUE,
                   !.doc = IF results_dir[j] /\ o = "corrupt" THEN BadDoc ELSE @,
                   !.faults = IF results_dir[j] THEN faults + 1 ELSE @]

(* _save_summary: save_json, then self.jobs[summary.job_id] = summary.     *)
(* save_json raises when the results directory is gone or the write fails; *)
(* the assignment is then not reached.  The failing writes of one handler  *)
(* are one failure of the file system (a full disk stays full).            *)
save_summary(c, j, o) ==
    IF results_dir[j] /\ o = "ok"
    THEN [c EXCEPT !.doc = c.s, !.indexed = TRUE]
    ELSE [c EXCEPT !.raised = TRUE,
                   !.err = IF results_dir[j] THEN ErrWrite ELSE ErrNoDir,
                   !.doc = IF results_dir[j] /\ o = "corrupt" THEN BadDoc ELSE @,
                   !.faults = IF results_dir[j] THEN faults + 1 ELSE @]

(* A faulty variant of _fail_job: the status is left as it is.             *)
fail_job_keeps_status(c, j, error, o) ==
    IF c.indexed
    THEN save_summary(
             [c EXCEPT !.s = [@ EXCEPT !.finished_at = TRUE,
                                       !.fail_reason = ErrorReason(error)],
                       !.raised = FALSE],
             j, o)
    ELSE [c EXCEPT !.raised = FALSE]

(* A faulty variant of _fail_job: the job is put back to QUEUED.           *)
fail_job_requeues(c, j, error, o) ==
    IF c.indexed
    THEN save_summary(
             [c EXCEPT !.s = [@ EXCEPT !.status = QUEUED,
                                       !.fail_reason = ErrorReason(error)],
                       !.raised = FALSE],
             j, o)
    ELSE [c EXCEPT !.raised = FALSE]

(* _fail_job: nothing when self.jobs.get(job_id) is None.                  *)
fail_job(c, j, error, o) ==
    IF c.indexed
    THEN save_summary(
             [c EXCEPT !.s = [@ EXCEPT !.status = FAILED, !.finished_at = TRUE,
                                       !.fail_reason = ErrorReason(error)],
                       !.raised = FALSE],
             j, o)
    ELSE [c EXCEPT !.raised = FALSE]

(* A faulty variant of the handler: the exception is logged and dropped.   *)
worker_catch_swallows(c, j, o) ==
    IF c.raised
    THEN [c EXCEPT !.caught = Append(@, c.err), !.raised = FALSE]
    ELSE c

(* _worker: except Exception as e: await self._fail_job(job_id, str(e)).   *)
worker_catch(c, j, o) ==
    IF c.raised
    THEN fail_job([c EXCEPT !.caught = Append(@, c.err)], j, c.err, o)
    ELSE c

(* A faulty variant of Commit: the worker's summary object is put into the *)
(* index whether or not the identifier was still a key of it.              *)
CommitAlwaysIndexes(c, j) ==
    /\ summary' = [summary EXCEPT ![j] = c.s]
    /\ disk' = [disk EXCEPT ![j] = c.doc]
    /\ jobs' = IF j \notin Range(jobs) THEN Append(jobs, j) ELSE jobs
    /\ faults' = c.faults
    /\ caught' = [caught EXCEPT ![j] = @ \o c.caught]

(* What a checkpoint leaves in the shared state.                           *)
Commit(c, j) ==
    /\ summary' = [summary EXCEPT ![j] = c.s]
    /\ disk' = [disk EXCEPT ![j] = c.doc]
    /\ jobs' = IF c.indexed /\ j \notin Range(jobs) THEN Append(jobs, j) ELSE jobs
    /\ faults' = c.faults
    /\ caught' = [caught EXCEPT ![j] = @ \o c.caught]

(* A faulty variant of the loop: the task ends after its first job.        *)
AfterJobExits(c) == WorkerAt("none")

(* _worker: finally (active_jobs -= 1, task_done); an exception that left  *)
(* the handler reaches the outer except and the task sleeps one second.    *)
AfterJob(c) == WorkerAt(IF c.raised THEN "backoff" ELSE "idle")

----------------------------------------------------------------------------
(* scanner.py: the tool runners.  What the external process did is an      *)
(* input (run); the runner turns it into a ToolResult.                     *)

NoError == "<None>"

NoStderr == ""

(* str.upper() on the severities the tools report.                         *)
Upper(s) ==
    CASE s = "critical" -> "CRITICAL"
      [] s = "high" -> "HIGH"
      [] s = "medium" -> "MEDIUM"
      [] s = "info" -> "INFO"
      [] s = "low" -> "LOW"
      [] OTHER -> s

(* subprocess.run returned: returncode, the issues of the JSON report (in  *)
(* the tool's own spelling) and stderr.                                    *)
Exited(returncode, issues, stderr) ==
    [kind |-> "exited", returncode |-> returncode, issues |-> issues,
     stderr |-> stderr]

(* subprocess.TimeoutExpired.                                              *)
TimedOut == [kind |-> "timeout"]

(* Any other exception inside the runner's try block.                      *)
Raised(text) == [kind |-> "raised", text |-> text]

Issue(severity, message) == [severity |-> severity, message |-> message]

RECURSIVE ModelscanFindings(_)
ModelscanFindings(issues) ==
    IF issues = <<>> THEN <<>>
    ELSE <<Finding("modelscan", Upper(Head(issues).severity),
                   Head(issues).message)>>
         \o ModelscanFindings(Tail(issues))

(* A faulty variant of run_modelscan: a timeout is reported as the exit    *)
(* code of a scan that found something.                                    *)
run_modelscan_timeout_exit1(version, run) ==
    CASE run.kind = "exited" ->
             ToolResult("modelscan", version, run.returncode,
                        ModelscanFindings(run.issues),
                        IF run.returncode = 2 THEN run.stderr ELSE NoError)
      [] run.kind = "timeout" ->
             ToolResult("modelscan", version, 1, <<>>,
                        "Scan timed out after 10 minutes")
      [] OTHER -> ToolResult("modelscan", version, -1, <<>>, run.text)

run_modelscan(version, run) ==
    CASE run.kind = "exited" ->
             ToolResult("modelscan", version, run.returncode,
                        ModelscanFindings(run.issues),
                        IF run.returncode = 2 THEN run.stderr ELSE NoError)
      [] run.kind = "timeout" ->
             ToolResult("modelscan", version, -1, <<>>,
                        "Scan timed out after 10 minutes")
      [] OTHER -> ToolResult("modelscan", version, -1, <<>>, run.text)

(* run_picklescan: run.issues are the matches of the "dangerous global"    *)
(* pattern in stdout (their message the global's module), run.infected     *)
(* whether stdout holds "infected".                                        *)
PickleExited(returncode, issues, infected, stderr) ==
    [kind |-> "exited", returncode |-> returncode, issues |-> issues,
     infected |-> infected, stderr |-> stderr]

RECURSIVE DangerousGlobals(_)
DangerousGlobals(issues) ==
    IF issues = <<>> THEN <<>>
    ELSE <<Finding("picklescan", "HIGH", Head(issues).message)>>
         \o DangerousGlobals(Tail(issues))

run_picklescan(version, run) ==
    CASE run.kind = "exited" ->
             LET dangerous == DangerousGlobals(run.issues)
                 findings ==
                     IF run.infected /\ run.returncode = 1 /\ dangerous = <<>>
                     THEN <<Finding("picklescan", "CRITICAL",
                                    "Picklescan detected malware/infection")>>
                     ELSE dangerous
             IN  ToolResult("picklescan", version, run.returncode, findings,
                            IF run.returncode = 2 THEN run.stderr ELSE NoError)
      [] run.kind = "timeout" ->
             ToolResult("picklescan", version, -1, <<>>,
                        "Scan timed out after 5 minutes")
      [] OTHER -> ToolResult("picklescan", version, -1, <<>>, run.text)

(* generate_ai_sbom: in-process; run.license is the licence of the model's *)
(* metadata, "" when it has none, and _is_restrictive_license decides the  *)
(* one MEDIUM finding.                                                     *)
SbomBuilt(license) == [kind |-> "built", license |-> license]

is_restrictive_license(license) == license \in {"gpl", "cc-by-nc"}

generate_ai_sbom(run) ==
    CASE run.kind = "built" ->
             ToolResult("aisbom", "1.0.0", 0,
                        IF is_restrictive_license(run.license)
                        THEN <<Finding("aisbom", "MEDIUM", run.license)>>
                        ELSE <<>>,
                        NoError)
      [] OTHER -> ToolResult("aisbom", "1.0.0", -1, <<>>, run.text)

----------------------------------------------------------------------------
(* Scenarios: the inputs a specification draws from.  configs are the jobs *)
(* a caller may submit, the others what the tools may do.                  *)

JobConfig(files, options) == [files |-> files, options |-> options]

(* Many jobs, each one ONNX file: the scheduler's scenario.                *)
Sched ==
    [max_jobs |-> MaxJobs,
     configs |-> {JobConfig(<<"onnx">>, JobOptions(TRUE, TRUE, FALSE))},
     versions |-> {"0.8.1"},
     modelscan |-> {Exited(0, <<>>, NoStderr),
                    Exited(1, <<Issue("critical", "unsafe operator")>>, NoStderr)},
     picklescan |-> {},
     aisbom |-> {SbomBuilt("")}]

(* The scheduler's jobs with a scanner that finds nothing: the scenario of *)
(* the process that keeps running.                                         *)
Live ==
    [max_jobs |-> MaxJobs,
     configs |-> {JobConfig(<<"onnx">>, JobOptions(TRUE, TRUE, FALSE))},
     versions |-> {"0.8.1"},
     modelscan |-> {Exited(0, <<>>, NoStderr)},
     picklescan |-> {},
     aisbom |-> {SbomBuilt("")}]

(* Jobs of several files, pickle and not, with the optional scanner on and *)
(* off, and tools whose version query answers differently from one         *)
(* invocation to the next ("unknown" when it fails): the scenario of the   *)
(* loop over the member files.                                             *)
Files ==
    [max_jobs |-> MaxFileJobs,
     configs |-> {JobConfig(<<"pkl", "onnx", "pkl">>,
                            JobOptions(TRUE, TRUE, TRUE)),
                  JobConfig(<<"pkl", "onnx">>,
                            JobOptions(FALSE, TRUE, FALSE))},
     versions |-> {"0.8.1", "unknown"},
     modelscan |-> {Exited(0, <<>>, NoStderr)},
     picklescan |-> {PickleExited(0, <<>>, FALSE, NoStderr), TimedOut},
     aisbom |-> {SbomBuilt("")}]

(* Lenient jobs of two pickle files, or of one, whose scanners and SBOM    *)
(* report findings or none: the scenario of the per-tool totals.           *)
Totals ==
    [max_jobs |-> MaxScanJobs,
     configs |-> {JobConfig(<<"pkl", "pkl">>, JobOptions(TRUE, FALSE, FALSE)),
                  JobConfig(<<"pkl">>, JobOptions(FALSE, TRUE, TRUE))},
     versions |-> {"0.8.1"},
     modelscan |-> {Exited(0, <<>>, NoStderr),
                    Exited(1, <<Issue("critical", "unsafe operator"),
                                Issue("low", "note")>>, NoStderr)},
     picklescan |-> {PickleExited(0, <<>>, FALSE, NoStderr),
                     PickleExited(1, <<Issue("", "os.system")>>, TRUE,
                                  NoStderr),
                     TimedOut},
     aisbom |-> {SbomBuilt(""), SbomBuilt("gpl"), Raised(ErrNoDir)}]

(* Clean jobs whose callers are followed: the scenario of the calls.       *)
Api ==
    [max_jobs |-> MaxApiJobs,
     configs |-> {JobConfig(<<"onnx">>, JobOptions(TRUE, TRUE, FALSE))},
     versions |-> {"0.8.1"},
     modelscan |-> {Exited(0, <<>>, NoStderr)},
     picklescan |-> {},
     aisbom |-> {SbomBuilt("")}]

(* Few jobs of every kind (a pickle file, a file of no supported           *)
(* extension): the pipeline's scenario.                                    *)
Pipe ==
    [max_jobs |-> MaxPipeJobs,
     configs |-> {JobConfig(<<"pkl">>, JobOptions(TRUE, TRUE, TRUE)),
                  JobConfig(<<"txt">>, JobOptions(TRUE, TRUE, FALSE))},
     versions |-> {"0.8.1"},
     modelscan |-> {Exited(0, <<>>, NoStderr),
                    Exited(1, <<Issue("critical", "unsafe operator")>>, NoStderr)},
     picklescan |-> {PickleExited(0, <<>>, FALSE, NoStderr),
                     PickleExited(1, <<>>, TRUE, NoStderr)},
     aisbom |-> {SbomBuilt("")}]

(* One job of every shape, and tools that find, fail and time out: the     *)
(* scenario of the scan itself.                                            *)
ManyIssues ==
    [k \in 1..(TopFindingsLimit + 1) |->
        Issue(IF k % 2 = 0 THEN "medium" ELSE "low", "unsafe operator")]

ErrLaunch == "[Errno 2] No such file or directory: 'modelscan'"

Scan ==
    [max_jobs |-> MaxScanJobs,
     configs |-> {JobConfig(<<"pkl">>, JobOptions(TRUE, TRUE, TRUE)),
                  JobConfig(<<"pkl">>, JobOptions(TRUE, TRUE, FALSE)),
                  JobConfig(<<"onnx", "txt", "pkl">>,
                            JobOptions(TRUE, TRUE, FALSE)),
                  JobConfig(<<"onnx">>, JobOptions(TRUE, FALSE, FALSE))},
     versions |-> {"0.8.1"},
     modelscan |-> {Exited(0, <<>>, NoStderr),
                    Exited(1, <<Issue("critical", "unsafe operator")>>, NoStderr),
                    Exited(1, ManyIssues, NoStderr),
                    Exited(2, <<>>, "error: scan failed"),
                    TimedOut,
                    Raised(ErrLaunch)},
     picklescan |-> {PickleExited(0, <<>>, FALSE, NoStderr),
                     PickleExited(1, <<>>, TRUE, NoStderr),
                     PickleExited(1, <<Issue("", "os.system")>>, TRUE, NoStderr),
                     TimedOut},
     aisbom |-> {SbomBuilt(""), SbomBuilt("gpl"), Raised(ErrNoDir)}]

----------------------------------------------------------------------------
(* JobManager: the read operations.                                        *)

(* get_job: self.jobs.get(job_id).                                         *)
get_job(j) == IF j \in Range(jobs) THEN summary[j] ELSE NoSummary

RECURSIVE Reverse(_)
Reverse(s) == IF s = <<>> THEN <<>> ELSE Append(Reverse(Tail(s)), Head(s))

(* list_jobs: reversed(list(self.jobs.items())), an item appended and then *)
(* the test len(items) >= limit.                                           *)
RECURSIVE ListLoop(_, _, _)
ListLoop(rest, items, limit) ==
    IF rest = <<>> THEN items
    ELSE LET more == Append(items, Head(rest))
         IN  IF Len(more) >= limit THEN more
             ELSE ListLoop(Tail(rest), more, limit)

(* A faulty variant of list_jobs: the index is walked in insertion order.  *)
list_jobs_oldest_first(limit) == ListLoop(jobs, <<>>, limit)

list_jobs(limit) == ListLoop(Reverse(jobs), <<>>, limit)

----------------------------------------------------------------------------
(* JobManager: the pipeline's steps between suspension points.             *)

(* A faulty variant of Aggregate: the findings are counted in the sample   *)
(* kept for display.                                                       *)
AggregateCountsSample(s, results) ==
    LET all_findings ==
            Prefix(Flatten([k \in 1..Len(results) |-> results[k].findings]),
                   TopFindingsLimit)
    IN  [s EXCEPT
            !.total_findings = Len(all_findings),
            !.findings_by_severity =
                [sev \in {all_findings[k].severity : k \in 1..Len(all_findings)} |->
                    Cardinality({k \in 1..Len(all_findings) :
                                    all_findings[k].severity = sev})],
            !.top_findings = all_findings]

(* _process_job, "Aggregate findings": all_findings, severity_counts,      *)
(* total_findings and top_findings.                                        *)
(* A faulty variant of Aggregate: top_findings keeps every finding.        *)
AggregateKeepsAll(s, results) ==
    LET all_findings ==
            Flatten([k \in 1..Len(results) |-> results[k].findings])
    IN  [s EXCEPT
            !.total_findings = Len(all_findings),
            !.findings_by_severity =
                [sev \in {all_findings[k].severity : k \in 1..Len(all_findings)} |->
                    Cardinality({k \in 1..Len(all_findings) :
                                    all_findings[k].severity = sev})],
            !.top_findings = all_findings]

Aggregate(s, results) ==
    LET all_findings ==
            Flatten([k \in 1..Len(results) |-> results[k].findings])
    IN  [s EXCEPT
            !.total_findings = Len(all_findings),
            !.findings_by_severity =
                [sev \in {all_findings[k].severity : k \in 1..Len(all_findings)} |->
                    Cardinality({k \in 1..Len(all_findings) :
                                    all_findings[k].severity = sev})],
            !.top_findings = Prefix(all_findings, TopFindingsLimit)]

(* A faulty variant of PolicyBlock: the SBOM is generated for a passing    *)
(* job only, whatever run_aisbom_on_fail says.                             *)
PolicyBlockSbomOnPass(wr, s) ==
    LET v == evaluate_policy(wr.results, s.options.strict_policy)
        s3 == [s EXCEPT !.findings_by_tool["modelscan"] =
                            wr.total_modelscan_findings,
                        !.pass_fail = v.pass_fail,
                        !.fail_reason = v.fail_reason]
    IN  IF v.pass_fail = "PASS"
        THEN [w |-> [wr EXCEPT !.pc = "aisbom", !.pass_fail = v.pass_fail],
              s |-> s3, evaluated |-> TRUE]
        ELSE [w |-> [wr EXCEPT !.pc = "zip", !.pass_fail = v.pass_fail],
              s |-> Aggregate(s3, wr.results), evaluated |-> TRUE]

(* A faulty variant of PolicyBlock: the verdict is not written to the      *)
(* summary.                                                                *)
PolicyBlockNoVerdict(wr, s) ==
    LET v == evaluate_policy(wr.results, s.options.strict_policy)
    IN  IF v.pass_fail = "PASS" \/ s.options.run_aisbom_on_fail
        THEN [w |-> [wr EXCEPT !.pc = "aisbom", !.pass_fail = v.pass_fail],
              s |-> s, evaluated |-> TRUE]
        ELSE [w |-> [wr EXCEPT !.pc = "zip", !.pass_fail = v.pass_fail],
              s |-> Aggregate(s, wr.results), evaluated |-> TRUE]

(* A faulty variant of PolicyBlock: the mandatory scanner's total is the   *)
(* count of its last result.                                               *)
PolicyBlockLastCount(wr, s) ==
    LET scans == SelectSeq(wr.results, LAMBDA r : r.tool = "modelscan")
        s1 == [s EXCEPT !.findings_by_tool["modelscan"] =
                            scans[Len(scans)].findings_count]
        s2 == IF \/ wr.total_picklescan_findings > 0
                 \/ "picklescan" \in Range(s1.tools_run)
              THEN [s1 EXCEPT !.findings_by_tool["picklescan"] =
                                  wr.total_picklescan_findings]
              ELSE s1
        v == evaluate_policy(wr.results, s.options.strict_policy)
        s3 == [s2 EXCEPT !.pass_fail = v.pass_fail,
                         !.fail_reason = v.fail_reason]
    IN  IF v.pass_fail = "PASS" \/ s.options.run_aisbom_on_fail
        THEN [w |-> [wr EXCEPT !.pc = "aisbom", !.pass_fail = v.pass_fail],
              s |-> s3, evaluated |-> TRUE]
        ELSE [w |-> [wr EXCEPT !.pc = "zip", !.pass_fail = v.pass_fail],
              s |-> Aggregate(s3, wr.results), evaluated |-> TRUE]

(* _process_job from "summary.findings_by_tool[...]" to the SBOM decision: *)
(* the per-tool totals, evaluate_policy, pass_fail and fail_reason; then   *)
(* either the SBOM generator is started or, with no SBOM, the findings are *)
(* aggregated and the artifacts ZIP is started.                            *)
PolicyBlock(wr, s) ==
    LET s1 == [s EXCEPT !.findings_by_tool["modelscan"] =
                            wr.total_modelscan_findings]
        s2 == IF \/ wr.total_picklescan_findings > 0
                 \/ "picklescan" \in Range(s1.tools_run)
              THEN [s1 EXCEPT !.findings_by_tool["picklescan"] =
                                  wr.total_picklescan_findings]
              ELSE s1
        v == evaluate_policy(wr.results, s.options.strict_policy)
        s3 == [s2 EXCEPT !.pass_fail = v.pass_fail,
                         !.fail_reason = v.fail_reason]
    IN  IF v.pass_fail = "PASS" \/ s.options.run_aisbom_on_fail
        THEN [w |-> [wr EXCEPT !.pc = "aisbom", !.pass_fail = v.pass_fail],
              s |-> s3, evaluated |-> TRUE]
        ELSE [w |-> [wr EXCEPT !.pc = "zip", !.pass_fail = v.pass_fail],
              s |-> Aggregate(s3, wr.results), evaluated |-> TRUE]

(* A faulty variant of SbomBlock: an SBOM that could not be built fails    *)
(* the job.                                                                *)
SbomBlockFailsOnError(wr, s, result) ==
    LET failed == result.exit_code # 0
    IN  [w |-> [wr EXCEPT !.results = Append(@, result), !.pc = "zip",
                          !.pass_fail = IF failed THEN "FAIL" ELSE @],
         s |-> [s EXCEPT
                   !.tools_run = Append(@, "aisbom"),
                   !.tool_versions["aisbom"] = result.version,
                   !.findings_by_tool["aisbom"] = result.findings_count,
                   !.pass_fail = IF failed THEN "FAIL" ELSE @]]

(* A faulty variant of SbomBlock: the SBOM's findings are not counted for  *)
(* their tool.                                                             *)
SbomBlockNoCount(wr, s, result) ==
    [w |-> [wr EXCEPT !.results = Append(@, result), !.pc = "zip"],
     s |-> [s EXCEPT
               !.tools_run = Append(@, "aisbom"),
               !.tool_versions["aisbom"] = result.version]]

(* _process_job after generate_ai_sbom returned: results.append,           *)
(* tools_run, tool_versions and findings_by_tool.                          *)
SbomBlock(wr, s, result) ==
    [w |-> [wr EXCEPT !.results = Append(@, result), !.pc = "zip"],
     s |-> [s EXCEPT
               !.tools_run = Append(@, "aisbom"),
               !.tool_versions["aisbom"] = result.version,
               !.findings_by_tool["aisbom"] = result.findings_count]]

(* A faulty variant of NextFile: the loop ends at a file whose scan        *)
(* failed.                                                                 *)
NextFileStopsOnError(wr, s) ==
    IF wr.i < Len(wr.model_files) /\ wr.results[Len(wr.results)].exit_code # -1
    THEN [w |-> [wr EXCEPT !.i = @ + 1, !.pc = "modelscan"], s |-> s,
          evaluated |-> FALSE]
    ELSE PolicyBlock(wr, s)

(* The end of one turn of "for i, model_file in enumerate(model_files)".   *)
NextFile(wr, s) ==
    IF wr.i < Len(wr.model_files)
    THEN [w |-> [wr EXCEPT !.i = @ + 1, !.pc = "modelscan"], s |-> s,
          evaluated |-> FALSE]
    ELSE PolicyBlock(wr, s)

(* The tool invocation a worker record is suspended in, if any.            *)
Invocation(wr) ==
    CASE wr.pc \in {"modelscan", "picklescan"} ->
             <<(<<wr.pc, wr.model_files[wr.i].id>>)>>
      [] wr.pc = "aisbom" -> <<(<<"aisbom", wr.model_files[1].id>>)>>
      [] OTHER -> <<>>

(* What a step of worker w on job j leaves: the worker's record, and in    *)
(* the history the tool invocation it started.                             *)
Step(w, j, wr) ==
    /\ worker' = [worker EXCEPT ![w] = wr]
    /\ tool_log' = [tool_log EXCEPT ![j] = @ \o Invocation(wr)]

----------------------------------------------------------------------------
(* The state after JobManager() on an empty data directory.                *)

NotEvaluated == [pass_fail |-> "not evaluated", fail_reason |-> NoReason]

InitSched ==
    /\ jobs = <<>>
    /\ summary = [j \in JobIds |-> NoSummary]
    /\ disk = [j \in JobIds |-> NoDoc]
    /\ upload_dir = [j \in JobIds |-> NoDir]
    /\ results_dir = [j \in JobIds |-> FALSE]
    /\ job_queue = <<>>
    /\ active_jobs = 0
    /\ workers_started = FALSE
    /\ worker = [w \in Workers |-> WorkerAt("none")]
    /\ next_id = 1
    /\ faults = 0
    /\ restarts = 0
    /\ born = {}
    /\ enqueued = [j \in JobIds |-> 0]
    /\ dequeued = [j \in JobIds |-> 0]
    /\ started = <<>>
    /\ tool_log = [j \in JobIds |-> <<>>]
    /\ policy_ran = [j \in JobIds |-> FALSE]
    /\ caught = [j \in JobIds |-> <<>>]
    /\ load_raised = NoReadFault
    /\ worker_tasks = 0
    /\ calls = NoCalls
    /\ verdict = [j \in JobIds |-> NoVerdict]
    /\ completed = [j \in JobIds |-> FALSE]
    /\ results_log = [j \in JobIds |-> <<>>]

Init ==
    /\ InitSched
    /\ pol_results = <<>>
    /\ pol_strict = TRUE
    /\ pol_out = NotEvaluated

----------------------------------------------------------------------------
(* JobManager.start_workers.                                               *)

(* A faulty variant of start_workers: without the _workers_started test,   *)
(* every call makes MAX_CONCURRENT_JOBS more tasks.                        *)
start_workers_unguarded ==
    /\ manager_up
    /\ workers_started' = TRUE
    /\ worker_tasks' = worker_tasks + MAX_CONCURRENT_JOBS
    /\ worker' = IF workers_started THEN worker
                 ELSE [w \in Workers |-> WorkerAt("idle")]
    /\ UNCHANGED <<jobs, summary, disk, upload_dir, results_dir, job_queue,
                   active_jobs, next_id, faults, restarts, born, enqueued,
                   dequeued, started, tool_log, policy_ran, caught, pol_vars,
                   load_raised, hist_vars>>

(* The tasks of the first call are worker[1..MAX_CONCURRENT_JOBS]; what    *)
(* the caller saw (calls) is written by the step that makes the call.      *)
start_workers ==
    /\ manager_up
    /\ IF workers_started
       THEN UNCHANGED <<workers_started, worker, worker_tasks>>
       ELSE /\ workers_started' = TRUE
            /\ worker_tasks' = worker_tasks + MAX_CONCURRENT_JOBS
            /\ worker' = [w \in Workers |-> WorkerAt("idle")]
    /\ UNCHANGED <<jobs, summary, disk, upload_dir, results_dir, job_queue,
                   active_jobs, next_id, faults, restarts, born, enqueued,
                   dequeued, started, tool_log, policy_ran, caught, pol_vars,
                   load_raised, hist_vars>>

(* JobManager.create_job / create_mounted_model_job, from the directories  *)
(* to the put on the queue.  save_json is called directly here: when it    *)
(* raises, the summary is in the index and the identifier is not queued.   *)
create_job(sc, cfg, o) ==
    LET j == next_id
        s == ScanSummary(j, cfg.options)
    IN  /\ manager_up
        /\ next_id <= sc.max_jobs
        /\ o = "ok" \/ faults < MaxFaults
        /\ next_id' = next_id + 1
        /\ upload_dir' = [upload_dir EXCEPT ![j] = cfg.files]
        /\ results_dir' = [results_dir EXCEPT ![j] = TRUE]
        /\ jobs' = Append(jobs, j)
        /\ summary' = [summary EXCEPT ![j] = s]
        /\ born' = born \cup {j}
        /\ IF o = "ok"
           THEN /\ disk' = [disk EXCEPT ![j] = s]
                /\ job_queue' = Append(job_queue, j)
                /\ enqueued' = [enqueued EXCEPT ![j] = @ + 1]
                /\ faults' = faults
           ELSE /\ disk' = [disk EXCEPT ![j] = IF o = "corrupt" THEN BadDoc
                                                ELSE NoDoc]
                /\ faults' = faults + 1
                /\ UNCHANGED <<job_queue, enqueued>>
        /\ UNCHANGED <<active_jobs, workers_started, worker, restarts,
                       dequeued, started, tool_log, policy_ran, caught,
                       pol_vars, load_raised, worker_tasks, calls, hist_vars>>

(* JobManager.delete_job.  o1 is what shutil.rmtree(upload_dir) does, o2   *)
(* what shutil.rmtree(results_dir) does: "ok", or "fail" (it raised and    *)
(* removed nothing).                                                       *)
(* The ScanSummary object lives on while a worker holds it.                *)
(* What the caller saw (calls) is written by the step that makes the call. *)
delete_job(j, o1, o2) ==
    /\ manager_up
    /\ IF j \notin Range(jobs)
       THEN UNCHANGED <<jobs, summary, disk, upload_dir, results_dir,
                        job_queue, active_jobs, workers_started, worker,
                        next_id, faults, restarts, born, enqueued, dequeued,
                        started, tool_log, policy_ran, caught, pol_vars,
                        load_raised, worker_tasks, hist_vars>>
       ELSE
         LET up_ok == upload_dir[j] = NoDir \/ o1 = "ok"
             res_ok == ~results_dir[j] \/ o2 = "ok"
             n == (IF up_ok THEN 0 ELSE 1)
                  + (IF up_ok /\ ~res_ok THEN 1 ELSE 0)
         IN  /\ faults + n <= MaxFaults
             /\ faults' = faults + n
             /\ upload_dir' =
                    [upload_dir EXCEPT ![j] =
                        IF up_ok THEN NoDir ELSE @]
             /\ results_dir' =
                    [results_dir EXCEPT ![j] = IF up_ok /\ res_ok THEN FALSE
                                               ELSE @]
             /\ disk' =
                    [disk EXCEPT ![j] =
                        IF up_ok /\ res_ok THEN NoDoc ELSE @]
             /\ jobs' = IF up_ok /\ res_ok THEN Remove(jobs, j) ELSE jobs
             /\ summary' =
                    [summary EXCEPT ![j] =
                        IF up_ok /\ res_ok /\ ~ \E w \in Workers : Holds(w, j)
                        THEN NoSummary ELSE @]
             /\ UNCHANGED <<job_queue, active_jobs, workers_started, worker,
                            next_id, restarts, born, enqueued, dequeued,
                            started, tool_log, policy_ran, caught, pol_vars,
                            load_raised, worker_tasks, hist_vars>>

(* A faulty variant of delete_job_ret: True whenever the identifier was in *)
(* the index, whether or not rmtree raised.                                *)
delete_job_ret_found(j, o1, o2) == j \in Range(jobs)

(* The value delete_job returns: False for an identifier that is not in    *)
(* the index and when rmtree raised, True after "del self.jobs[job_id]".   *)
delete_job_ret(j, o1, o2) ==
    /\ j \in Range(jobs)
    /\ upload_dir[j] = NoDir \/ o1 = "ok"
    /\ ~results_dir[j] \/ o2 = "ok"

(* The process stops (at any point) and starts again: JobManager.__init__  *)
(* and _load_existing_jobs.  RESULTS_DIR.iterdir() yields the job          *)
(* directories in an order the file system chooses; a directory whose      *)
(* summary.json is missing or does not load is skipped.                    *)
WellFormed(doc) == doc.status \in JobStatus

OrdersOf(S) ==
    {[k \in 1..Cardinality(S) |-> f[k]] :
        f \in {g \in [1..Cardinality(S) -> S] :
                  \A a, b \in 1..Cardinality(S) : g[a] = g[b] => a = b}}

(* load_json, then the ScanSummary constructor: the summary, NoSummary when *)
(* json.load raises JSONDecodeError or the model rejects the data, and     *)
(* "raised" when open() or read() raises anything else (the read of job r  *)
(* fails: PermissionError, OSError), which load_json does not catch.       *)
load_json(doc, j, r) ==
    IF r = j THEN [status |-> "raised"]
    ELSE IF WellFormed(doc) THEN doc ELSE NoSummary

(* r is the job whose summary.json cannot be read, or NoReadFault.  An     *)
(* exception that load_json lets through is caught neither by              *)
(* _load_existing_jobs (its try names FileNotFoundError only) nor by       *)
(* __init__: JobManager() raises and the module is not imported.           *)
load_existing_jobs(r) ==
    LET present == {j \in JobIds : results_dir[j] /\ disk[j] # NoDoc}
        loaded == [j \in JobIds |-> IF j \in present
                                     THEN load_json(disk[j], j, r)
                                     ELSE NoSummary]
        raised == \E j \in JobIds : loaded[j].status = "raised"
        loadable == {j \in JobIds : loaded[j].status \in JobStatus}
    IN  /\ restarts < MaxRestarts
        /\ restarts' = restarts + 1
        /\ r \in present \cup {NoReadFault}
        /\ r = NoReadFault \/ faults < MaxFaults
        /\ faults' = IF r = NoReadFault THEN faults ELSE faults + 1
        /\ load_raised' = r
        /\ IF raised
           THEN /\ jobs' = <<>>
                /\ summary' = [j \in JobIds |-> NoSummary]
           ELSE /\ jobs' \in OrdersOf(loadable)
                /\ summary' = [j \in JobIds |-> IF j \in loadable THEN loaded[j]
                                                 ELSE NoSummary]
        /\ job_queue' = <<>>
        /\ active_jobs' = 0
        /\ workers_started' = FALSE
        /\ worker' = [w \in Workers |-> WorkerAt("none")]
        /\ worker_tasks' = 0
        /\ calls' = NoCalls
        /\ born' = {}
        /\ UNCHANGED <<disk, upload_dir, results_dir, next_id, enqueued,
                       dequeued, started, tool_log, policy_ran, caught,
                       pol_vars, hist_vars>>

----------------------------------------------------------------------------
(* JobManager._worker and _process_job.                                    *)

(* Faulty variants of the queue: the item stays in the queue; the newest   *)
(* item is taken.                                                          *)
queue_peek(q) == [item |-> Head(q), rest |-> q]

queue_get_lifo(q) == [item |-> q[Len(q)], rest |-> SubSeq(q, 1, Len(q) - 1)]

(* asyncio.Queue.get on a queue that holds an item: the oldest one.        *)
queue_get(q) == [item |-> Head(q), rest |-> Tail(q)]

(* A faulty variant of finally_active: the decrement follows _process_job  *)
(* in the try block, so that it is skipped when _process_job raised.       *)
finally_active_on_return(n, raised) == IF raised THEN n ELSE n - 1

(* _worker's finally: "self.active_jobs -= 1", whether _process_job        *)
(* returned or raised.  n is the counter after "self.active_jobs += 1".    *)
finally_active(n, raised) == n - 1

(* One worker iteration from job_queue.get() returning to the first        *)
(* suspension: active_jobs += 1, then _process_job up to the first         *)
(* run_modelscan, or to its return, or to the exception it raises.  os are *)
(* the outcomes of the writes of summary.json, in the order they happen.   *)
(* The tasks run the same code, so which of the idle ones the queue wakes  *)
(* makes no difference: the least-numbered idle task stands for them all.  *)
worker_get(w, os) ==
    /\ worker[w].pc = "idle"
    /\ \A v \in Workers : v < w => worker[v].pc # "idle"
    /\ job_queue # <<>>
    /\ LET j == queue_get(job_queue).item
           c0 == Ctx(j)
           \* summary.status = JobStatus.RUNNING; self._save_summary(summary)
           c1 == save_summary([c0 EXCEPT !.s = [@ EXCEPT !.status = RUNNING]],
                              j, os[1])
       IN  /\ job_queue' = queue_get(job_queue).rest
           /\ dequeued' = [dequeued EXCEPT ![j] = @ + 1]
           /\ UNCHANGED <<upload_dir, results_dir, workers_started, next_id,
                          restarts, born, enqueued, policy_ran, pol_vars,
                          load_raised, worker_tasks, calls, hist_vars>>
           /\ IF ~c0.indexed
              THEN \* "Job not found": return, finally
                   /\ os = [k \in 1..3 |-> "ok"]
                   /\ active_jobs' = finally_active(active_jobs + 1, FALSE)
                   /\ UNCHANGED <<jobs, summary, disk, faults, started,
                                  worker, tool_log, caught>>
              ELSE /\ started' = Append(started, j)
                   /\ IF c1.raised \/ upload_dir[j] = NoDir
                      THEN \* the write or upload_dir.iterdir() raised
                           LET c2 == worker_catch(
                                         [c1 EXCEPT !.raised = TRUE,
                                             !.err = IF c1.raised THEN @
                                                     ELSE ErrNoDir],
                                         j, os[2])
                           IN  /\ os[3] = "ok"
                               /\ c2.faults <= MaxFaults
                               /\ Commit(c2, j)
                               /\ Step(w, j, AfterJob(c2))
                               /\ active_jobs' =
                                      finally_active(active_jobs + 1, TRUE)
                      ELSE \E entries \in Iterdir(upload_dir[j]) :
                          LET model_files == SupportedFiles(entries)
                              \* await self._fail_job(job_id, "No model files found")
                              c2 == fail_job(c1, j, NoModelFiles, os[2])
                              c3 == worker_catch(c2, j, os[3])
                          IN  IF model_files = <<>>
                              THEN /\ c3.faults <= MaxFaults
                                   /\ Commit(c3, j)
                                   /\ Step(w, j, AfterJob(c3))
                                   /\ active_jobs' =
                                          finally_active(active_jobs + 1,
                                                         c2.raised)
                              ELSE /\ os[2] = "ok" /\ os[3] = "ok"
                                   /\ c1.faults <= MaxFaults
                                   /\ Commit(c1, j)
                                   /\ active_jobs' = active_jobs + 1
                                   /\ Step(w, j,
                                           [WorkerAt("modelscan") EXCEPT
                                               !.job_id = j,
                                               !.model_files = model_files,
                                               !.i = 1])

(* A faulty variant of RecordTool: the version is stored after every       *)
(* invocation, so that the last one stays.                                 *)
RecordToolLatestVersion(s, first, tool, version) ==
    [s EXCEPT !.tools_run = IF first THEN Append(@, tool) ELSE @,
              !.tool_versions[tool] = version]

(* The two statements under "if i == 0" and under "if "picklescan" not in  *)
(* summary.tools_run": the tool's name and the version this invocation     *)
(* reported go into the summary when the test (first) holds.               *)
RecordTool(s, first, tool, version) ==
    IF first
    THEN [s EXCEPT !.tools_run = Append(@, tool),
                   !.tool_versions[tool] = version]
    ELSE s

(* run_modelscan returned: results.append, the running total, tools_run    *)
(* and tool_versions for the first file; then run_picklescan is started,   *)
(* or the loop goes on.                                                    *)
worker_modelscan(w, version, run) ==
    /\ worker[w].pc = "modelscan"
    /\ LET wr == worker[w]
           j == wr.job_id
           result == run_modelscan(version, run)
           wr1 == [wr EXCEPT !.results = Append(@, result),
                             !.total_modelscan_findings =
                                 @ + result.findings_count]
           \* if i == 0:
           s1 == RecordTool(summary[j], wr.i = 1, "modelscan", result.version)
           nxt == IF /\ s1.options.enable_picklescan
                     /\ is_pickle_format(wr.model_files[wr.i].ext)
                  THEN [w |-> [wr1 EXCEPT !.pc = "picklescan"], s |-> s1,
                        evaluated |-> FALSE]
                  ELSE NextFile(wr1, s1)
       IN  /\ summary' = [summary EXCEPT ![j] = nxt.s]
           /\ policy_ran' = [policy_ran EXCEPT ![j] = @ \/ nxt.evaluated]
           /\ verdict' = [verdict EXCEPT ![j] = IF nxt.evaluated
                                                THEN nxt.w.pass_fail ELSE @]
           /\ results_log' = [results_log EXCEPT ![j] =
                                  Append(@, [run |-> run, result |-> result])]
           /\ Step(w, j, nxt.w)
    /\ UNCHANGED <<jobs, disk, upload_dir, results_dir, job_queue, active_jobs,
                   workers_started, next_id, faults, restarts, born, enqueued,
                   dequeued, started, caught, pol_vars, load_raised, worker_tasks,
                   calls, completed>>

(* run_picklescan returned.                                                *)
worker_picklescan(w, version, run) ==
    /\ worker[w].pc = "picklescan"
    /\ LET wr == worker[w]
           j == wr.job_id
           result == run_picklescan(version, run)
           wr1 == [wr EXCEPT !.results = Append(@, result),
                             !.total_picklescan_findings =
                                 @ + result.findings_count]
           \* if "picklescan" not in summary.tools_run:
           s1 == RecordTool(summary[j],
                            "picklescan" \notin Range(summary[j].tools_run),
                            "picklescan", result.version)
           nxt == NextFile(wr1, s1)
       IN  /\ summary' = [summary EXCEPT ![j] = nxt.s]
           /\ policy_ran' = [policy_ran EXCEPT ![j] = @ \/ nxt.evaluated]
           /\ verdict' = [verdict EXCEPT ![j] = IF nxt.evaluated
                                                THEN nxt.w.pass_fail ELSE @]
           /\ results_log' = [results_log EXCEPT ![j] =
                                  Append(@, [run |-> run, result |-> result])]
           /\ Step(w, j, nxt.w)
    /\ UNCHANGED <<jobs, disk, upload_dir, results_dir, job_queue, active_jobs,
                   workers_started, next_id, faults, restarts, born, enqueued,
                   dequeued, started, caught, pol_vars, load_raised, worker_tasks,
                   calls, completed>>

(* generate_ai_sbom returned: its result is recorded, the findings are     *)
(* aggregated and the artifacts ZIP is started.                            *)
worker_aisbom(w, run) ==
    /\ worker[w].pc = "aisbom"
    /\ LET wr == worker[w]
           j == wr.job_id
           result == generate_ai_sbom(run)
           nxt == SbomBlock(wr, summary[j], result)
       IN  /\ summary' = [summary EXCEPT ![j] = Aggregate(nxt.s, nxt.w.results)]
           /\ results_log' = [results_log EXCEPT ![j] =
                                  Append(@, [run |-> run, result |-> result])]
           /\ Step(w, j, nxt.w)
    /\ UNCHANGED <<jobs, disk, upload_dir, results_dir, job_queue, active_jobs,
                   workers_started, next_id, faults, restarts, born, enqueued,
                   dequeued, started, policy_ran, caught, pol_vars, load_raised,
                   worker_tasks, calls,
                   verdict, completed>>

(* A faulty variant of FinalStatus: a pipeline that ran to its end has     *)
(* succeeded.                                                              *)
FinalStatusSucceeded(pass_fail) == SUCCEEDED

(* "Finalize": JobStatus.SUCCEEDED if pass_fail == "PASS" else FAILED.     *)
FinalStatus(pass_fail) == IF pass_fail = "PASS" THEN SUCCEEDED ELSE FAILED

(* create_artifacts_zip returned or raised (oz; it raises when the results *)
(* directory is gone): "Finalize", the last write, and the worker's except *)
(* and finally.                                                            *)
worker_zip(w, oz, os) ==
    /\ worker[w].pc = "zip"
    /\ LET wr == worker[w]
           j == wr.job_id
           c0 == Ctx(j)
           zipped == results_dir[j] /\ oz = "ok"
           c1 == IF zipped
                 THEN save_summary(
                          [c0 EXCEPT !.s =
                              [@ EXCEPT !.finished_at = TRUE,
                                        !.status = FinalStatus(wr.pass_fail)]],
                          j, os[1])
                 ELSE [c0 EXCEPT !.raised = TRUE,
                                 !.err = IF results_dir[j] THEN ErrWrite
                                         ELSE ErrNoDir,
                                 !.faults = IF results_dir[j] THEN faults + 1
                                            ELSE @]
           c2 == worker_catch(c1, j, os[2])
       IN  /\ zipped \/ os[1] = "ok"
           /\ c1.raised \/ os[2] = "ok"
           /\ c2.faults <= MaxFaults
           /\ Commit(c2, j)
           /\ Step(w, j, AfterJob(c2))
           /\ active_jobs' = finally_active(active_jobs, c1.raised)
           /\ completed' = [completed EXCEPT ![j] = ~c1.raised]
    /\ UNCHANGED <<upload_dir, results_dir, job_queue, workers_started,
                   next_id, restarts, born, enqueued, dequeued, started,
                   policy_ran, pol_vars, load_raised, worker_tasks, calls, verdict,
                   results_log>>

(* asyncio.sleep(1) of the outer except returned: the loop goes on.        *)
worker_backoff(w) ==
    /\ worker[w].pc = "backoff"
    /\ worker' = [worker EXCEPT ![w] = WorkerAt("idle")]
    /\ UNCHANGED <<jobs, summary, disk, upload_dir, results_dir, job_queue,
                   active_jobs, workers_started, next_id, faults, restarts,
                   born, enqueued, dequeued, started, tool_log, policy_ran,
                   caught, pol_vars, load_raised, worker_tasks, calls, hist_vars>>

----------------------------------------------------------------------------
(* The specifications.                                                     *)

CreateJob(sc) == \E cfg \in sc.configs, o \in IoOutcomes : create_job(sc, cfg, o)

DeleteJob == \E j \in JobIds, o1, o2 \in {"ok", "fail"} :
    j < next_id /\ delete_job(j, o1, o2) /\ UNCHANGED calls

StartWorkers == start_workers /\ UNCHANGED calls

(* The same calls with their caller followed.                              *)
DeleteJobCall == \E j \in JobIds, o1, o2 \in {"ok", "fail"} :
    /\ j < next_id
    /\ calls.deletes < MaxCalls
    /\ delete_job(j, o1, o2)
    /\ calls' = [calls EXCEPT !.deletes = @ + 1, !.job_id = j,
                              !.ret = delete_job_ret(j, o1, o2)]

StartWorkersCall ==
    /\ calls.starts < MaxCalls
    /\ start_workers
    /\ calls' = [calls EXCEPT !.starts = @ + 1]

Restart == \E r \in JobIds \cup {NoReadFault} : load_existing_jobs(r)

WorkerGet == \E w \in Workers, os \in [1..3 -> IoOutcomes] : worker_get(w, os)

WorkerModelscan(sc) == \E w \in Workers, v \in sc.versions, run \in sc.modelscan :
    worker_modelscan(w, v, run)

WorkerPicklescan(sc) == \E w \in Workers, v \in sc.versions, run \in sc.picklescan :
    worker_picklescan(w, v, run)

WorkerAisbom(sc) == \E w \in Workers, run \in sc.aisbom : worker_aisbom(w, run)

WorkerZip == \E w \in Workers, oz \in IoOutcomes, os \in [1..2 -> IoOutcomes] :
    worker_zip(w, oz, os)

WorkerBackoff == \E w \in Workers : worker_backoff(w)

(* The scheduler: MaxJobs jobs under MAX_CONCURRENT_JOBS workers, with     *)
(* deletions, failing writes and restarts.                                 *)
Next ==
    \/ CreateJob(Sched)
    \/ DeleteJob
    \/ StartWorkers
    \/ Restart
    \/ WorkerGet
    \/ WorkerModelscan(Sched)
    \/ WorkerAisbom(Sched)
    \/ WorkerZip
    \/ WorkerBackoff

Spec == Init /\ [][Next]_vars

(* The pipeline: MaxPipeJobs jobs of every kind.                           *)
NextPipe ==
    \/ CreateJob(Pipe)
    \/ DeleteJob
    \/ StartWorkers
    \/ Restart
    \/ WorkerGet
    \/ WorkerModelscan(Pipe)
    \/ WorkerPicklescan(Pipe)
    \/ WorkerAisbom(Pipe)
    \/ WorkerZip
    \/ WorkerBackoff

SpecPipe == Init /\ [][NextPipe]_vars

(* The scheduler in a process that keeps running (no restart), whose event *)
(* loop schedules every worker task fairly and whose tool invocations and  *)
(* sleeps all return.                                                      *)
worker_step(w) ==
    \/ \E os \in [1..3 -> IoOutcomes] : worker_get(w, os)
    \/ \E v \in Live.versions, run \in Live.modelscan : worker_modelscan(w, v, run)
    \/ \E run \in Live.aisbom : worker_aisbom(w, run)
    \/ \E oz \in IoOutcomes, os \in [1..2 -> IoOutcomes] : worker_zip(w, oz, os)
    \/ worker_backoff(w)

NextLive ==
    \/ CreateJob(Live)
    \/ DeleteJob
    \/ StartWorkers
    \/ WorkerGet
    \/ WorkerModelscan(Live)
    \/ WorkerAisbom(Live)
    \/ WorkerZip
    \/ WorkerBackoff

SpecLive ==
    /\ Init
    /\ [][NextLive]_vars
    /\ \A w \in Workers : WF_vars(worker_step(w))

(* The scan: one job of every shape under every tool outcome, with         *)
(* deletions, failing writes and restarts.                                 *)
NextScan ==
    \/ CreateJob(Scan)
    \/ DeleteJob
    \/ StartWorkers
    \/ Restart
    \/ WorkerGet
    \/ WorkerModelscan(Scan)
    \/ WorkerPicklescan(Scan)
    \/ WorkerAisbom(Scan)
    \/ WorkerZip
    \/ WorkerBackoff

SpecScan == Init /\ [][NextScan]_vars

(* The loop over the member files: MaxFileJobs jobs of several files.      *)
NextFiles ==
    \/ CreateJob(Files)
    \/ DeleteJob
    \/ StartWorkers
    \/ Restart
    \/ WorkerGet
    \/ WorkerModelscan(Files)
    \/ WorkerPicklescan(Files)
    \/ WorkerAisbom(Files)
    \/ WorkerZip
    \/ WorkerBackoff

SpecFiles == Init /\ [][NextFiles]_vars

(* The per-tool totals: MaxScanJobs jobs whose tools report findings.      *)
NextTotals ==
    \/ CreateJob(Totals)
    \/ DeleteJob
    \/ StartWorkers
    \/ Restart
    \/ WorkerGet
    \/ WorkerModelscan(Totals)
    \/ WorkerPicklescan(Totals)
    \/ WorkerAisbom(Totals)
    \/ WorkerZip
    \/ WorkerBackoff

SpecTotals == Init /\ [][NextTotals]_vars

(* The calls: MaxApiJobs clean jobs, with what start_workers and           *)
(* delete_job gave their callers.                                          *)
NextApi ==
    \/ CreateJob(Api)
    \/ DeleteJobCall
    \/ StartWorkersCall
    \/ Restart
    \/ WorkerGet
    \/ WorkerModelscan(Api)
    \/ WorkerAisbom(Api)
    \/ WorkerZip
    \/ WorkerBackoff

SpecApi == Init /\ [][NextApi]_vars

----------------------------------------------------------------------------
(* evaluate_policy as a function: its arguments are drawn from the tool    *)
(* results below (any List[ToolResult] is an argument the function takes), *)
(* and the one action applies it.                                          *)

PolFindings(tool) ==
    {<<>>,
     <<Finding(tool, "INFO", "note")>>,
     <<Finding(tool, "HIGH", "unsafe operator")>>,
     <<Finding(tool, "CRITICAL", "unsafe operator"),
       Finding(tool, "MEDIUM", "note")>>}

PolToolResults ==
    {ToolResult(tool, "0.8.1", exit_code, findings, NoError) :
        <<tool, exit_code, findings>> \in
            UNION {{<<t, e, f>> : e \in {0, 1, 2, -1}, f \in PolFindings(t)} :
                      t \in Tools}}

PolInputs == UNION {[1..n -> PolToolResults] : n \in 0..MaxPolResults}

InitPolicy ==
    /\ InitSched
    /\ pol_results \in PolInputs
    /\ pol_strict \in BOOLEAN
    /\ pol_out = NotEvaluated

EvaluatePolicy ==
    /\ pol_out = NotEvaluated
    /\ pol_out' = evaluate_policy(pol_results, pol_strict)
    /\ UNCHANGED <<sched_vars, pol_results, pol_strict>>

NextPolicy == EvaluatePolicy

SpecPolicy == InitPolicy /\ [][NextPolicy]_vars

----------------------------------------------------------------------------
(* Properties.                                                             *)

Indexed == Range(jobs)

Running == {j \in Indexed : summary[j].status = RUNNING}

Rank(status) ==
    CASE status = QUEUED -> 0
      [] status = RUNNING -> 1
      [] OTHER -> 2

(* C2: a job is created with status QUEUED, and over the create, worker,   *)
(* fail and delete steps (every step but a restart) its status never moves *)
(* back along QUEUED -> RUNNING -> {SUCCEEDED, FAILED}.                    *)
C2_StatusForward ==
    [][restarts' = restarts =>
          \A j \in JobIds :
              summary'[j].status \in JobStatus =>
                  IF summary[j].status \in JobStatus
                  THEN Rank(summary'[j].status) >= Rank(summary[j].status)
                  ELSE summary'[j].status = QUEUED]_vars

(* Jobs of one lifetime in every status at once.                           *)
C2_Witness ==
    /\ restarts = 0
    /\ \E a, b, c \in Indexed :
          /\ summary[a].status = SUCCEEDED
          /\ summary[b].status = FAILED
          /\ summary[c].status = RUNNING

(* C3: for every job in the index, finished_at is present exactly when the *)
(* status is SUCCEEDED or FAILED.                                          *)
C3_FinishedAt ==
    \A j \in Indexed : summary[j].finished_at <=> summary[j].status \in Terminal

(* A job that _fail_job ended, with finished_at, and a running job        *)
(* without.                                                                *)
C3_Witness ==
    \E a, b \in Indexed :
        /\ summary[a].status = FAILED /\ ~policy_ran[a] /\ summary[a].finished_at
        /\ summary[b].status = RUNNING /\ ~summary[b].finished_at

(* A job that failed before policy evaluation is FAILED with no verdict    *)
(* and with a reason.                                                      *)
FailedEarly(j) ==
    (summary[j].status = FAILED /\ ~policy_ran[j]) =>
        /\ summary[j].pass_fail = NoVerdict
        /\ summary[j].fail_reason # NoReason

(* C4 (as stated): for every job, pass_fail is present exactly when policy *)
(* evaluation has run for it, and a job that failed before policy          *)
(* evaluation is FAILED with pass_fail absent and fail_reason set.         *)
C4_VerdictIffEvaluated ==
    \A j \in Indexed :
        /\ summary[j].pass_fail # NoVerdict <=> policy_ran[j]
        /\ FailedEarly(j)

(* C4 (amended): pass_fail is present only when policy evaluation has run  *)
(* for the job, and is present whenever it has run in the current process  *)
(* lifetime (a job recovered at startup has the verdict of its last        *)
(* written document, which may be none); a job that failed before policy   *)
(* evaluation is FAILED with pass_fail absent and fail_reason set.         *)
C4_VerdictWhenEvaluated ==
    \A j \in Indexed :
        /\ summary[j].pass_fail # NoVerdict => policy_ran[j]
        /\ (policy_ran[j] /\ j \in born) => summary[j].pass_fail # NoVerdict
        /\ FailedEarly(j)

(* One job with a verdict after its evaluation, and one that failed with   *)
(* no model files and has none.                                            *)
C4_Witness ==
    \E a, b \in Indexed \cap born :
        /\ policy_ran[a] /\ summary[a].pass_fail = "FAIL"
        /\ ~policy_ran[b] /\ summary[b].status = FAILED
        /\ summary[b].fail_reason = ErrorReason(NoModelFiles)

Last(s) == s[Len(s)]

(* C5: when the pipeline raises for a job, the worker marks the job (if it *)
(* is still in the index) FAILED with the failure's description as         *)
(* fail_reason, the worker task does not end, and it waits for the queue   *)
(* again, at once or after its one-second sleep.                           *)
C5_FailureMarked ==
    [][\A j \in JobIds :
          caught'[j] # caught[j] =>
              /\ j \in Range(jobs') =>
                     /\ summary'[j].status = FAILED
                     /\ summary'[j].fail_reason = ErrorReason(Last(caught'[j]))
              /\ \A w \in Workers :
                     /\ worker'[w].pc # "none"
                     /\ worker[w].job_id = j => worker'[w].pc \in {"idle", "backoff"}]_vars

(* The first job's pipeline raised, it is FAILED with that description,    *)
(* and both workers (so also the one that caught it) run the later jobs.   *)
C5_Witness ==
    /\ restarts = 0
    /\ caught[1] # <<>>
    /\ 1 \in Indexed
    /\ summary[1].status = FAILED
    /\ summary[1].fail_reason = ErrorReason(Last(caught[1]))
    /\ \E w1, w2 \in Workers : w1 # w2 /\ Holds(w1, 2) /\ Holds(w2, 3)

(* C6: with the workers started, every job that was put on the queue is    *)
(* eventually SUCCEEDED or FAILED, or deleted.                             *)
C6_EventuallyTerminal ==
    \A j \in JobIds :
        (enqueued[j] > 0 /\ workers_started) ~>
            (j \notin Indexed \/ summary[j].status \in Terminal)

(* Every job was queued and has ended, none deleted, with both outcomes.   *)
C6_Witness ==
    /\ \A j \in JobIds : enqueued[j] = 1 /\ j \in Indexed
                            /\ summary[j].status \in Terminal
    /\ \E a, b \in JobIds : /\ summary[a].status = SUCCEEDED
                             /\ summary[b].status = FAILED

Count(s, x) == Cardinality({i \in 1..Len(s) : s[i] = x})

C8_Fifo ==
    /\ \A i, k \in 1..Len(started) : i < k => started[i] < started[k]
    /\ \A a, b \in born :
          (a < b /\ enqueued[a] = 1 /\ Count(started, b) = 1) =>
              /\ dequeued[a] = 1
              /\ Count(started, a) = 1 \/ a \notin Indexed

(* Three jobs of one lifetime were marked RUNNING, in their order, the     *)
(* third while a worker was still busy.                                    *)
C8_Witness ==
    /\ started = <<1, 2, 3>>
    /\ restarts = 0
    /\ \E w \in Workers : Holds(w, 3)

(* The job's upload directory holds files, none of a supported extension.  *)
NoSupported(j) ==
    /\ upload_dir[j] # NoDir
    /\ upload_dir[j] # <<>>
    /\ \A k \in 1..Len(upload_dir[j]) : upload_dir[j][k] \notin SUPPORTED_EXTENSIONS

(* C9 (as stated): a job none of whose files has a supported extension     *)
(* ends FAILED with fail_reason "No model files found", and no tool is     *)
(* invoked for it.                                                         *)
C9_ExactReason ==
    \A j \in Indexed :
        NoSupported(j) =>
            /\ tool_log[j] = <<>> /\ summary[j].tools_run = <<>>
            /\ summary[j].status \in Terminal =>
                   /\ summary[j].status = FAILED
                   /\ summary[j].fail_reason = ErrorReason(NoModelFiles)

(* C9 (amended): such a job ends FAILED and no tool is invoked for it; its *)
(* fail_reason is "No model files found" unless a write of its summary     *)
(* failed while it was handled, and then it is that failure's description. *)
C9_NoModelFiles ==
    \A j \in Indexed :
        NoSupported(j) =>
            /\ tool_log[j] = <<>> /\ summary[j].tools_run = <<>>
            /\ (j \in born /\ dequeued[j] = 1) => summary[j].status = FAILED
            /\ summary[j].status \in Terminal =>
                   /\ summary[j].status = FAILED
                   /\ summary[j].pass_fail = NoVerdict
                   /\ summary[j].fail_reason =
                          ErrorReason(IF caught[j] = <<>> THEN NoModelFiles
                                      ELSE Last(caught[j]))

(* A job with no model files that failed with exactly that reason, and one *)
(* that failed with a write error.                                         *)
C9_Witness ==
    \E a, b \in Indexed :
        /\ NoSupported(a) /\ NoSupported(b)
        /\ summary[a].fail_reason = ErrorReason(NoModelFiles)
        /\ summary[b].fail_reason = ErrorReason(ErrWrite)

Scanners == {"modelscan", "picklescan"}

(* A result that makes a strict policy fail: a scanner's result with a     *)
(* HIGH or CRITICAL finding or with exit code 1.                           *)
Trips(result) ==
    /\ result.tool \in Scanners
    /\ \/ result.exit_code = 1
       \/ \E k \in 1..Len(result.findings) :
              result.findings[k].severity \in {"HIGH", "CRITICAL"}

(* C10: with strict_policy true, evaluate_policy returns FAIL exactly when *)
(* some modelscan or picklescan result has a HIGH or CRITICAL finding or   *)
(* exit code 1, and otherwise PASS with no reason; the results of the SBOM *)
(* generator never change the verdict.                                     *)
C10_StrictVerdict ==
    (pol_out # NotEvaluated /\ pol_strict) =>
        /\ pol_out.pass_fail \in {"PASS", "FAIL"}
        /\ pol_out.pass_fail = "FAIL" <=>
               \E i \in 1..Len(pol_results) : Trips(pol_results[i])
        /\ pol_out.pass_fail = "PASS" => pol_out.fail_reason = NoReason
        /\ pol_out =
               evaluate_policy(
                   SelectSeq(pol_results, LAMBDA r : r.tool # "aisbom"), TRUE)

(* A strict evaluation that passed although an SBOM result carried a       *)
(* CRITICAL finding and exit code 1.                                       *)
C10_Witness ==
    /\ pol_strict
    /\ pol_out.pass_fail = "PASS"
    /\ \E i \in 1..Len(pol_results) :
          /\ pol_results[i].tool = "aisbom"
          /\ pol_results[i].exit_code = 1
          /\ \E k \in 1..Len(pol_results[i].findings) :
                 pol_results[i].findings[k].severity = "CRITICAL"

(* C11: with strict_policy false, evaluate_policy returns PASS and no      *)
(* reason for every list of results, whatever findings and exit codes they *)
(* hold.                                                                   *)
C11_LenientPass ==
    (pol_out # NotEvaluated /\ ~pol_strict) =>
        pol_out = [pass_fail |-> "PASS", fail_reason |-> NoReason]

(* A lenient evaluation that passed a scanner's result with exit code 1    *)
(* and a CRITICAL finding.                                                 *)
C11_Witness ==
    /\ ~pol_strict
    /\ pol_out.pass_fail = "PASS"
    /\ \E i \in 1..Len(pol_results) :
          /\ pol_results[i].tool \in Scanners
          /\ pol_results[i].exit_code = 1
          /\ \E k \in 1..Len(pol_results[i].findings) :
                 pol_results[i].findings[k].severity = "CRITICAL"

(* C12: a job whose pipeline ran to its end is SUCCEEDED if the verdict    *)
(* that policy evaluation computed for it is PASS and FAILED otherwise,    *)
(* its stored pass_fail is that verdict, and no other job is SUCCEEDED.    *)
C12_StatusFromVerdict ==
    \A j \in Indexed :
        /\ completed[j] =>
               /\ verdict[j] \in {"PASS", "FAIL"}
               /\ summary[j].status =
                      (IF verdict[j] = "PASS" THEN SUCCEEDED ELSE FAILED)
               /\ summary[j].pass_fail = verdict[j]
        /\ summary[j].status = SUCCEEDED => completed[j] /\ verdict[j] = "PASS"

(* A job that ran to its end with the verdict FAIL and is FAILED with      *)
(* pass_fail "FAIL" and the policy's reason.                               *)
C12_Witness ==
    \E j \in Indexed :
        /\ completed[j] /\ verdict[j] = "FAIL"
        /\ summary[j].status = FAILED /\ summary[j].pass_fail = "FAIL"
        /\ summary[j].fail_reason # NoReason /\ caught[j] = <<>>

ResultsOf(j) == [k \in 1..Len(results_log[j]) |-> results_log[j][k].result]

ScannerResults(j) == SelectSeq(ResultsOf(j), LAMBDA r : r.tool \in Scanners)

SbomResults(j) == SelectSeq(ResultsOf(j), LAMBDA r : r.tool = "aisbom")

(* The summary object of job j is the one the pipeline worked on, or a     *)
(* document it wrote when the job ended.                                   *)
Current(j) == j \in born \/ summary[j].status \in Terminal

(* C13: when the SBOM generator has returned for a job, whatever it        *)
(* returned, the job's verdict is still the one evaluate_policy computed   *)
(* from the scanners' results alone, the stored pass_fail is that verdict, *)
(* and a job that ran to its end has the status that verdict gives.        *)
C13_SbomKeepsVerdict ==
    \A j \in Indexed :
        SbomResults(j) # <<>> =>
            /\ verdict[j] =
                   evaluate_policy(ScannerResults(j),
                                   summary[j].options.strict_policy).pass_fail
            /\ Current(j) => summary[j].pass_fail = verdict[j]
            /\ \A w \in Workers : Holds(w, j) => worker[w].pass_fail = verdict[j]
            /\ completed[j] =>
                   summary[j].status =
                       (IF verdict[j] = "PASS" THEN SUCCEEDED ELSE FAILED)

(* A job that SUCCEEDED although its SBOM could not be built (exit code -1 *)
(* and an error).                                                          *)
C13_Witness ==
    \E j \in Indexed :
        /\ completed[j] /\ summary[j].status = SUCCEEDED
        /\ summary[j].pass_fail = "PASS"
        /\ \E k \in 1..Len(SbomResults(j)) :
               /\ SbomResults(j)[k].exit_code = -1
               /\ SbomResults(j)[k].error # NoError

(* The files the SBOM generator, and the mandatory scanner, were invoked   *)
(* on for job j, in order.                                                 *)
FilesOfTool(j, tool) ==
    LET runs == SelectSeq(tool_log[j], LAMBDA e : e[1] = tool)
    IN  [k \in 1..Len(runs) |-> runs[k][2]]

HasSummary(j) == summary[j].status \in JobStatus

CriticalPickleJob(j) ==
    /\ upload_dir[j] = <<"pkl">>
    /\ summary[j].options.strict_policy
    /\ summary[j].options.enable_picklescan
    /\ \E k \in 1..Len(ScannerResults(j)) :
           /\ ScannerResults(j)[k].tool = "modelscan"
           /\ \E n \in 1..Len(ScannerResults(j)[k].findings) :
                  ScannerResults(j)[k].findings[n].severity = "CRITICAL"
    /\ summary[j].status \in Terminal

(* fail_reason holds the mandatory scanner's name and the severity.        *)
NamesCritical(fail_reason) ==
    \E k \in 1..Len(fail_reason) :
        /\ ReasonContains(fail_reason[k], "modelscan")
        /\ fail_reason[k].severity = "CRITICAL"

EndsFailedBothScanners(j) ==
    /\ summary[j].status = FAILED
    /\ summary[j].pass_fail = "FAIL"
    /\ {"modelscan", "picklescan"} \subseteq Range(summary[j].tools_run)
    /\ "aisbom" \in Range(summary[j].tools_run)
           <=> summary[j].options.run_aisbom_on_fail

(* C15 (as stated): such a job ends FAILED with pass_fail "FAIL", its      *)
(* fail_reason holds the mandatory scanner's name and the severity,        *)
(* tools_run holds both scanners, and holds the SBOM generator exactly     *)
(* when run_aisbom_on_fail is true.                                        *)
C15_ReasonNamesScanner ==
    \A j \in Indexed :
        CriticalPickleJob(j) =>
            /\ EndsFailedBothScanners(j)
            /\ NamesCritical(summary[j].fail_reason)

(* C15 (amended): such a job ends FAILED with pass_fail "FAIL", tools_run  *)
(* holds both scanners, and the SBOM generator exactly when                *)
(* run_aisbom_on_fail is true; its fail_reason holds the mandatory         *)
(* scanner's name and the severity unless building the artifacts archive   *)
(* or the last write of the summary failed, and then it is that failure's  *)
(* description.                                                            *)
C15_CriticalPickle ==
    \A j \in Indexed :
        CriticalPickleJob(j) =>
            /\ EndsFailedBothScanners(j)
            /\ IF caught[j] = <<>>
               THEN NamesCritical(summary[j].fail_reason)
               ELSE summary[j].fail_reason = ErrorReason(Last(caught[j]))

(* Such a job that ended by its verdict, run_aisbom_on_fail false and no   *)
(* SBOM.                                                                   *)
C15_Witness ==
    \E j \in Indexed :
        /\ CriticalPickleJob(j) /\ completed[j]
        /\ ~summary[j].options.run_aisbom_on_fail
        /\ summary[j].tools_run = <<"modelscan", "picklescan">>
        /\ NamesCritical(summary[j].fail_reason)

(* The tool suspension points.                                             *)
InTool == {"modelscan", "picklescan", "aisbom"}

(* C16: a scanner invocation that times out yields a ToolResult with exit  *)
(* code -1, an error and no findings, and the pipeline goes on with it as  *)
(* with any result (the worker holds one result for each invocation that   *)
(* returned); under a strict policy the verdict is PASS if no scanner      *)
(* result has a HIGH or CRITICAL finding or exit code 1, and the job then  *)
(* ends SUCCEEDED.                                                         *)
C16_TimeoutAbsorbed ==
    \A j \in JobIds :
        /\ \A k \in 1..Len(results_log[j]) :
               results_log[j][k].run = TimedOut =>
                   /\ results_log[j][k].result.tool \in Scanners
                   /\ results_log[j][k].result.exit_code = -1
                   /\ results_log[j][k].result.error # NoError
                   /\ results_log[j][k].result.findings = <<>>
                   /\ results_log[j][k].result.findings_count = 0
        /\ \A w \in Workers :
               Holds(w, j) =>
                   /\ worker[w].results = ResultsOf(j)
                   /\ Len(tool_log[j]) =
                          Len(ResultsOf(j))
                              + (IF worker[w].pc \in InTool THEN 1 ELSE 0)
        /\ (policy_ran[j] /\ HasSummary(j) /\ summary[j].options.strict_policy
               /\ \A k \in 1..Len(ScannerResults(j)) :
                      ~Trips(ScannerResults(j)[k])) =>
               /\ verdict[j] = "PASS"
               /\ completed[j] /\ j \in Indexed => summary[j].status = SUCCEEDED

(* A strict job whose mandatory scanner timed out and which ended          *)
(* SUCCEEDED with the verdict PASS, after the optional scanner ran.        *)
C16_Witness ==
    \E j \in Indexed :
        /\ results_log[j] # <<>>
        /\ results_log[j][1].run = TimedOut
        /\ results_log[j][1].result.tool = "modelscan"
        /\ "picklescan" \in Range(summary[j].tools_run)
        /\ summary[j].options.strict_policy
        /\ completed[j]
        /\ summary[j].status = SUCCEEDED /\ summary[j].pass_fail = "PASS"

(* The member files of job j with a supported extension.                   *)
SupportedOf(j) ==
    {k \in 1..Len(upload_dir[j]) : upload_dir[j][k] \in SUPPORTED_EXTENSIONS}

(* C17: the mandatory scanner is invoked at most once for a member file    *)
(* and never for a file of an unsupported extension, and when the loop     *)
(* over the files has ended (policy evaluation has run) it was invoked     *)
(* exactly once for each supported file, whatever the earlier invocations  *)
(* returned.                                                               *)
C17_EveryFileScanned ==
    \A j \in JobIds :
        LET scans == FilesOfTool(j, "modelscan")
        IN  /\ \A a, b \in 1..Len(scans) : scans[a] = scans[b] => a = b
            /\ upload_dir[j] # NoDir =>
                   /\ Range(scans) \subseteq SupportedOf(j)
                   /\ policy_ran[j] => Range(scans) = SupportedOf(j)

(* A job of three files, one of them unsupported, whose first scan failed  *)
(* (exit code -1) and whose two supported files were both scanned.         *)
C17_Witness ==
    \E j \in JobIds :
        /\ upload_dir[j] # NoDir /\ Len(upload_dir[j]) = 3
        /\ Cardinality(SupportedOf(j)) = 2
        /\ policy_ran[j]
        /\ results_log[j][1].result.exit_code = -1
        /\ results_log[j][1].result.error # NoError
        /\ Len(FilesOfTool(j, "modelscan")) = 2

(* Every scanner invocation of job j failed: each result has exit code -1  *)
(* and an error.                                                           *)
AllScansFailed(j) ==
    /\ ScannerResults(j) # <<>>
    /\ \A k \in 1..Len(ScannerResults(j)) :
           /\ ScannerResults(j)[k].exit_code = -1
           /\ ScannerResults(j)[k].error # NoError

(* C18: a job every scanner invocation of which failed ends FAILED and not *)
(* SUCCEEDED.                                                              *)
C18_AbortWhenNoResult ==
    \A j \in Indexed :
        (AllScansFailed(j) /\ summary[j].status \in Terminal) =>
            summary[j].status = FAILED

RECURSIVE SumOver(_, _)
SumOver(f, S) ==
    IF S = {} THEN 0
    ELSE LET x == CHOOSE y \in S : TRUE
         IN  f[x] + SumOver(f, S \ {x})

(* Every finding of every ToolResult of job j, in the order of the         *)
(* results.                                                                *)
AllFindings(j) ==
    Flatten([k \in 1..Len(ResultsOf(j)) |-> ResultsOf(j)[k].findings])

(* The findings of job j were aggregated: policy evaluation ran and the    *)
(* SBOM generator, if it was started, has returned.                        *)
Aggregated(j) ==
    /\ policy_ran[j]
    /\ FilesOfTool(j, "aisbom") = <<>> \/ SbomResults(j) # <<>>

(* C19: in every summary the counts of findings_by_severity add up to      *)
(* total_findings; for a job whose findings were aggregated (its summary   *)
(* being the one the pipeline worked on, or a document written when the    *)
(* job ended) total_findings is the number of findings of all its          *)
(* ToolResults, scanners and SBOM, findings_by_severity counts each        *)
(* severity among them, and top_findings is their first 20.                *)
C19_SeverityCounts ==
    \A j \in Indexed :
        LET by_severity == summary[j].findings_by_severity
            all == AllFindings(j)
        IN  /\ SumOver(by_severity, DOMAIN by_severity) = summary[j].total_findings
            /\ (Aggregated(j) /\ Current(j)) =>
                   /\ summary[j].total_findings = Len(all)
                   /\ DOMAIN by_severity = {all[k].severity : k \in 1..Len(all)}
                   /\ \A sev \in DOMAIN by_severity :
                          by_severity[sev] =
                              Cardinality({k \in 1..Len(all) : all[k].severity = sev})
                   /\ Len(summary[j].top_findings) = Min(Len(all), TopFindingsLimit)

(* A job with more findings than the sample holds, of two severities and   *)
(* from the scanner and the SBOM generator.                                *)
C19_Witness ==
    \E j \in Indexed :
        /\ Aggregated(j)
        /\ summary[j].total_findings > TopFindingsLimit + 1
        /\ Len(summary[j].top_findings) = TopFindingsLimit
        /\ Cardinality(DOMAIN summary[j].findings_by_severity) >= 2
        /\ summary[j].findings_by_tool["aisbom"] = 1

(* C20: a restart leaves in the index exactly the jobs whose summary.json  *)
(* is well-formed, each as its document says (status and verdict           *)
(* included); a document that is malformed or cannot be read makes only    *)
(* its own job be skipped.                                                 *)
C20_RecoversWellFormed ==
    [][restarts' # restarts =>
          LET recoverable ==
                  {j \in JobIds : /\ results_dir[j]
                                  /\ disk[j].status \in JobStatus
                                  /\ j # load_raised'}
          IN  /\ Range(jobs') = recoverable
              /\ \A j \in recoverable :
                     /\ summary'[j].status = disk[j].status
                     /\ summary'[j].pass_fail = disk[j].pass_fail]_vars

----------------------------------------------------------------------------
(* The calls of the job store.                                             *)

(* A delete_job call returned in this step; its argument and its value.    *)
DeleteReturned == calls'.deletes = calls.deletes + 1

DeleteArg == calls'.job_id

DeleteRet == calls'.ret

(* Nothing of the job store changed in this step.                          *)
StoreUnchanged ==
    UNCHANGED <<jobs, summary, disk, upload_dir, results_dir, job_queue>>

(* The job's directories and its index entry are gone after this step.     *)
DeletedNow(j) ==
    /\ j \notin Range(jobs')
    /\ upload_dir'[j] = NoDir
    /\ ~results_dir'[j]
    /\ disk'[j] = NoDoc

(* The job whose last delete_job call returned True is absent.             *)
DeletedStaysAbsent ==
    (calls.deletes > 0 /\ calls.ret) =>
        /\ get_job(calls.job_id) = NoSummary
        /\ upload_dir[calls.job_id] = NoDir
        /\ ~results_dir[calls.job_id]

Limits == 1..(MaxJobs + 1)

(* A step of this process lifetime changed the status of an indexed job.   *)
StatusUpdated ==
    /\ restarts' = restarts
    /\ \E j \in Indexed : /\ j \in Range(jobs')
                          /\ get_job(j)'.status # get_job(j).status

(* C22: list_jobs returns the jobs of the index most recently created      *)
(* first (identifiers are handed out in creation order, so of two jobs     *)
(* created in this process lifetime the later one has the larger           *)
(* identifier and comes first), and a step that updates a status leaves    *)
(* every listing as it was.                                                *)
C22_NewestFirst ==
    /\ [](\A limit \in Limits :
            /\ Range(list_jobs(limit)) \subseteq Indexed
            /\ Len(list_jobs(limit)) = Min(limit, Len(jobs))
            /\ \A a, b \in 1..Len(list_jobs(limit)) :
                   (/\ a < b
                    /\ list_jobs(limit)[a] \in born
                    /\ list_jobs(limit)[b] \in born)
                   => list_jobs(limit)[a] > list_jobs(limit)[b])
    /\ [][StatusUpdated
              => \A limit \in Limits : list_jobs(limit)' = list_jobs(limit)]_vars

(* Three jobs were created one after the other, the oldest has ended and   *)
(* the youngest is still queued: the listing shows the youngest first.     *)
C22_Witness ==
    /\ list_jobs(MaxJobs) = <<3, 2, 1>>
    /\ born = {1, 2, 3}
    /\ summary[1].status \in Terminal
    /\ summary[2].status = RUNNING
    /\ summary[3].status = QUEUED
    /\ list_jobs(1) = <<3>>

(* The worker loops that exist.                                            *)
WorkerLoops == {w \in Workers : worker[w].pc # "none"}

(* A start_workers call returned in this step.                             *)
StartReturned == calls'.starts = calls.starts + 1

(* C23: once start_workers has been called, however often, exactly         *)
(* MAX_CONCURRENT_JOBS worker tasks have been made and exist, and a call   *)
(* after the first makes no task and changes nothing.                      *)
C23_StartIdempotent ==
    /\ [](calls.starts >= 1 =>
             /\ workers_started
             /\ worker_tasks = MAX_CONCURRENT_JOBS
             /\ Cardinality(WorkerLoops) = MAX_CONCURRENT_JOBS)
    /\ [](calls.starts = 0 => worker_tasks = 0 /\ WorkerLoops = {})
    /\ [][(StartReturned /\ calls.starts >= 1) =>
              UNCHANGED <<worker_tasks, worker, workers_started, job_queue,
                          active_jobs, jobs, summary, disk>>]_vars

(* start_workers was called twice and a worker is in the middle of a job.  *)
C23_Witness ==
    /\ calls.starts = 2
    /\ worker_tasks = MAX_CONCURRENT_JOBS
    /\ \E w \in Workers : worker[w].pc = "modelscan"

----------------------------------------------------------------------------
(* The checkpoints of a summary.                                           *)

(* C24: whenever the summary get_job returns has status RUNNING, its       *)
(* pass_fail is absent, its tools_run is empty and its total_findings is   *)
(* 0, as they were at the RUNNING checkpoint.                              *)
C24_NoPartialResults ==
    \A j \in Indexed :
        get_job(j).status = RUNNING =>
            /\ get_job(j).pass_fail = NoVerdict
            /\ get_job(j).tools_run = <<>>
            /\ get_job(j).total_findings = 0

(* C25: a job with status FAILED has pass_fail "FAIL" (the policy failed)  *)
(* or no pass_fail (the scan could not run), in the index and in its       *)
(* persisted document; FAILED with pass_fail "PASS" never occurs.          *)
C25_FailedNeverPass ==
    \A j \in JobIds :
        /\ (j \in Indexed /\ get_job(j).status = FAILED)
               => get_job(j).pass_fail \in {"FAIL", NoVerdict}
        /\ (WellFormed(disk[j]) /\ disk[j].status = FAILED)
               => disk[j].pass_fail \in {"FAIL", NoVerdict}

----------------------------------------------------------------------------
(* The counter of active jobs.                                             *)

(* The workers between "active_jobs += 1" and "active_jobs -= 1".          *)
Active == {w \in Workers : worker[w].pc \in InPipeline}

(* C26: active_jobs is the number of workers between their increment and   *)
(* their decrement, so it is never negative and never above                *)
(* MAX_CONCURRENT_JOBS; and a step in which a worker is done with the job  *)
(* it had taken, whether the job ended well or failed, takes exactly one   *)
(* off, while a job that begins and ends in one step leaves it as it was.  *)
C26_ActiveJobs ==
    /\ [](/\ active_jobs = Cardinality(Active)
          /\ active_jobs >= 0
          /\ active_jobs <= MAX_CONCURRENT_JOBS)
    /\ [][restarts' = restarts =>
              /\ (\E w \in Active : w \notin Active')
                     => active_jobs' = active_jobs - 1
              /\ (dequeued' # dequeued /\ Active' = Active)
                     => active_jobs' = active_jobs
              /\ (dequeued' # dequeued /\ Active' # Active)
                     => active_jobs' = active_jobs + 1]_vars

(* Both workers are in a job after an earlier job has failed with an       *)
(* exception that _worker caught.                                          *)
C26_Witness ==
    /\ active_jobs = MAX_CONCURRENT_JOBS
    /\ Cardinality(Active) = MAX_CONCURRENT_JOBS
    /\ \E j \in JobIds : caught[j] # <<>>

----------------------------------------------------------------------------
(* RUNNING before the first tool.                                          *)

ToolPcs == {"modelscan", "picklescan", "aisbom"}

(* A tool is running for job j.                                            *)
ToolRuns(j) == \E w \in Workers : worker[w].pc \in ToolPcs /\ worker[w].job_id = j

(* C27: in the step in which the first tool of a job is invoked, the       *)
(* persisted document and the summary get_job returns have status RUNNING, *)
(* and while a tool runs for a job its persisted document never has status *)
(* QUEUED (it is RUNNING, or gone with a deleted job).                     *)
C27_RunningBeforeTools ==
    /\ [][\A j \in JobIds :
              (tool_log[j] = <<>> /\ tool_log'[j] # <<>>) =>
                  /\ disk'[j].status = RUNNING
                  /\ get_job(j)'.status = RUNNING
                  /\ Len(tool_log'[j]) = 1]_vars
    /\ [](\A j \in JobIds :
             ToolRuns(j) =>
                 /\ disk[j].status # QUEUED
                 /\ summary[j].status = RUNNING
                 /\ disk[j] # NoDoc => disk[j].status = RUNNING)

(* A job whose first write of RUNNING failed ran no tool, while the other  *)
(* job's scanner is running on a persisted RUNNING document.               *)
C27_Witness ==
    \E j, k \in JobIds :
        /\ ToolRuns(j)
        /\ disk[j].status = RUNNING
        /\ caught[k] = <<ErrWrite>>
        /\ tool_log[k] = <<>>
        /\ k \in Range(started)

----------------------------------------------------------------------------
(* The document and the index entry.                                       *)

(* A checkpoint of job j was taken in this step: create_job wrote its      *)
(* first summary, _process_job marked it RUNNING, or its worker left the   *)
(* last step with the terminal write or with _fail_job.                    *)
Checkpoint(j) ==
    \/ next_id = j /\ next_id' = j + 1
    \/ Len(started') > Len(started) /\ started'[Len(started')] = j
    \/ /\ restarts' = restarts
       /\ \E w \in Workers : /\ Holds(w, j)
                             /\ worker[w].pc = "zip"
                             /\ worker'[w].pc # "zip"

(* The fields of a summary the lifecycle writes.                           *)
Lifecycle(s) == <<s.status, s.finished_at, s.pass_fail, s.fail_reason>>

(* The persisted document of j agrees with the entry of the index.         *)
DocAgrees(j) == WellFormed(disk[j]) /\ Lifecycle(disk[j]) = Lifecycle(summary[j])

(* C28: after each checkpoint of a job that is in the index, status,       *)
(* finished_at, pass_fail and fail_reason of the persisted document equal  *)
(* those of the index entry, whether or not the write of the document      *)
(* failed.                                                                 *)
C28_DocAndEntryTogether ==
    [][\A j \in JobIds :
          (Checkpoint(j) /\ j \in Range(jobs')) => DocAgrees(j)']_vars

----------------------------------------------------------------------------
(* The loop over the member files.                                         *)

(* The extension of member file f of job j.                                *)
ExtOf(j, f) == upload_dir[j][f]

(* The optional scanner is due for member file f of job j.                 *)
PickleDue(j, f) ==
    summary[j].options.enable_picklescan /\ ExtOf(j, f) \in PICKLE_EXTENSIONS

(* C29: the scanners are invoked file by file in the order of the member   *)
(* files: an invocation of the optional scanner follows at once the        *)
(* mandatory scanner's invocation for the same file, which is a            *)
(* pickle-family file of a job with enable_picklescan, and the mandatory   *)
(* scanner's invocation for such a file is followed at once by the         *)
(* optional scanner's for the same file, and for no other file.            *)
C29_PicklescanAfterModelscan ==
    \A j \in JobIds :
        (HasSummary(j) /\ upload_dir[j] # NoDir) =>
            LET log == tool_log[j]
            IN  /\ \A w \in Workers :
                       (Holds(w, j) /\ worker[w].pc \in {"modelscan", "picklescan"})
                       => /\ log[Len(log)][2] = worker[w].model_files[worker[w].i].id
                          /\ \A k \in 1..Len(FilesOfTool(j, "modelscan")) :
                                 FilesOfTool(j, "modelscan")[k]
                                     = worker[w].model_files[k].id
                /\ \A k \in 1..Len(log) :
                       /\ log[k][1] = "picklescan" =>
                              /\ k > 1
                              /\ log[k - 1] = <<"modelscan", log[k][2]>>
                              /\ PickleDue(j, log[k][2])
                       /\ (log[k][1] = "modelscan" /\ k < Len(log)) =>
                              (log[k + 1] = <<"picklescan", log[k][2]>>
                                   <=> PickleDue(j, log[k][2]))
                       /\ (log[k][1] = "modelscan" /\ k = Len(log)
                              /\ PickleDue(j, log[k][2])) =>
                              ~policy_ran[j]

(* A job of two pickle files and one other file with the optional scanner  *)
(* on has run five scans, the other file between the two pickle files.     *)
C29_Witness ==
    \E j \in JobIds :
        /\ HasSummary(j) /\ upload_dir[j] # NoDir
        /\ policy_ran[j]
        /\ summary[j].options.enable_picklescan
        /\ Len(FilesOfTool(j, "modelscan")) = 3
        /\ Len(FilesOfTool(j, "picklescan")) = 2
        /\ tool_log[j][3] = <<"modelscan", 2>>

(* What the invocations of tool t for job j returned, in order.            *)
ReturnsOf(j, t) == SelectSeq(ResultsOf(j), LAMBDA r : r.tool = t)

NoDuplicates(s) == \A a, b \in 1..Len(s) : s[a] = s[b] => a = b

(* C30: tools_run names each tool that has returned at least once exactly  *)
(* once, however many files it ran on, and tool_versions of such a tool is *)
(* the version its first invocation reported.                              *)
C30_ToolsOnceFirstVersion ==
    \A j \in JobIds :
        (HasSummary(j) /\ Current(j)) =>
            /\ NoDuplicates(summary[j].tools_run)
            /\ \A t \in Tools :
                   /\ t \in Range(summary[j].tools_run)
                          <=> ReturnsOf(j, t) # <<>>
                   /\ ReturnsOf(j, t) # <<>> =>
                          summary[j].tool_versions[t]
                              = ReturnsOf(j, t)[1].version

(* Both scanners ran twice for one job, and each reported another version  *)
(* the second time than the first.                                         *)
C30_Witness ==
    \E j \in JobIds :
        /\ HasSummary(j) /\ Current(j)
        /\ summary[j].status \in Terminal
        /\ \A t \in {"modelscan", "picklescan"} :
               /\ Len(ReturnsOf(j, t)) >= 2
               /\ ReturnsOf(j, t)[2].version # ReturnsOf(j, t)[1].version
               /\ summary[j].tool_versions[t] = ReturnsOf(j, t)[1].version

----------------------------------------------------------------------------
(* The totals of a summary.                                                *)

(* The finding counts of the invocations of tool t for job j, added up.    *)
CountOver(j, t) ==
    SumOver([k \in 1..Len(ReturnsOf(j, t)) |-> ReturnsOf(j, t)[k].findings_count],
            1..Len(ReturnsOf(j, t)))

(* C31: for a job whose pipeline ran to its end and for each scanner that  *)
(* was invoked for it, findings_by_tool of that scanner is the sum of the  *)
(* finding counts of all its invocations over the member files.            *)
C31_TotalsAcrossFiles ==
    \A j \in JobIds :
        (completed[j] /\ HasSummary(j) /\ Current(j)) =>
            \A t \in {"modelscan", "picklescan"} :
                ReturnsOf(j, t) # <<>> =>
                    summary[j].findings_by_tool[t] = CountOver(j, t)

(* A completed job of two files in which both scanners found something in  *)
(* both files.                                                             *)
C31_Witness ==
    \E j \in JobIds :
        /\ completed[j] /\ HasSummary(j) /\ Current(j)
        /\ \A t \in {"modelscan", "picklescan"} :
               /\ Len(ReturnsOf(j, t)) = 2
               /\ \A k \in 1..2 : ReturnsOf(j, t)[k].findings_count > 0
               /\ summary[j].findings_by_tool[t]
                      > ReturnsOf(j, t)[2].findings_count

(* The tools findings_by_tool of summary s has an entry for.               *)
ToolsCounted(s) == {t \in Tools : s.findings_by_tool[t] >= 0}

(* C40: for a job whose pipeline ran to its end, the entries of            *)
(* findings_by_tool add up to total_findings.                              *)
C40_ToolTotalsAddUp ==
    \A j \in JobIds :
        (completed[j] /\ HasSummary(j) /\ Current(j)) =>
            SumOver(summary[j].findings_by_tool, ToolsCounted(summary[j]))
                = summary[j].total_findings

(* A completed job with findings of the mandatory scanner, of the optional *)
(* scanner and of the SBOM generator.                                      *)
C40_Witness ==
    \E j \in JobIds :
        /\ completed[j] /\ HasSummary(j) /\ Current(j)
        /\ \A t \in Tools : summary[j].findings_by_tool[t] > 0
        /\ summary[j].total_findings >= 5

----------------------------------------------------------------------------
(* The reasons of a verdict.                                               *)

(* The places of the exit-code reason of a scanner in a list of reasons.   *)
ExitReasonsAt(reasons, tool) ==
    {k \in 1..Len(reasons) : reasons[k] = ExitReason(tool)}

(* C32: in strict mode the exit-code reason of a scanner occurs at most    *)
(* once among the reasons of an evaluation, and only with no reason of a   *)
(* finding of that scanner before it, however many results the scanner     *)
(* has.                                                                    *)
C32_ExitReasonOnce ==
    (pol_out # NotEvaluated /\ pol_strict) =>
        \A tool \in {"modelscan", "picklescan"} :
            /\ Cardinality(ExitReasonsAt(pol_out.fail_reason, tool)) <= 1
            /\ \A k \in ExitReasonsAt(pol_out.fail_reason, tool) :
                   \A i \in 1..(k - 1) :
                       ~(/\ pol_out.fail_reason[i].kind = "finding"
                         /\ pol_out.fail_reason[i].tool = tool)

----------------------------------------------------------------------------
(* The sample of findings.                                                 *)

(* C33: top_findings never has more than 20 entries, in the index and in   *)
(* the persisted document, and for a job whose pipeline ran to its end it  *)
(* is the first min(20, total_findings) findings of the job's ToolResults, *)
(* results in the order of invocation and findings in the order reported.  *)
C33_TopFindings ==
    \A j \in JobIds :
        /\ HasSummary(j) => Len(summary[j].top_findings) <= TopFindingsLimit
        /\ WellFormed(disk[j]) => Len(disk[j].top_findings) <= TopFindingsLimit
        /\ (completed[j] /\ HasSummary(j) /\ Current(j)) =>
               summary[j].top_findings
                   = SubSeq(AllFindings(j), 1,
                            Min(TopFindingsLimit, summary[j].total_findings))

(* A completed job with more than 20 findings whose sample begins with the *)
(* finding of the first result and goes on with those of the second.       *)
C33_Witness ==
    \E j \in JobIds :
        /\ completed[j] /\ HasSummary(j) /\ Current(j)
        /\ summary[j].total_findings > TopFindingsLimit
        /\ Len(summary[j].top_findings) = TopFindingsLimit
        /\ ResultsOf(j)[1].findings_count = 1
        /\ ResultsOf(j)[2].findings_count > TopFindingsLimit
        /\ summary[j].top_findings[2] = ResultsOf(j)[2].findings[1]

----------------------------------------------------------------------------
(* Jobs that are not terminal.                                             *)

(* C34: every indexed job with status QUEUED has its identifier in the     *)
(* queue or is held by a worker, and every indexed job with status RUNNING *)
(* is held by a worker, after a restart too.                               *)
C34_NoStrandedJob ==
    \A j \in Indexed :
        /\ get_job(j).status = QUEUED =>
               (j \in Range(job_queue) \/ \E w \in Workers : Holds(w, j))
        /\ get_job(j).status = RUNNING => \E w \in Workers : Holds(w, j)

----------------------------------------------------------------------------
(* Terminal jobs.                                                          *)

(* C35: in a step of the running process, a job whose status is SUCCEEDED  *)
(* or FAILED and that stays in the index keeps its status, finished_at,    *)
(* pass_fail and fail_reason, and so does a persisted document with such a *)
(* status that is not removed, also when the step is one in which a write  *)
(* fails.                                                                  *)
C35_TerminalStable ==
    [][restarts' = restarts =>
          \A j \in JobIds :
              /\ (/\ j \in Indexed /\ j \in Range(jobs')
                  /\ get_job(j).status \in Terminal)
                     => Lifecycle(get_job(j)') = Lifecycle(get_job(j))
              /\ (/\ WellFormed(disk[j]) /\ disk[j].status \in Terminal
                  /\ disk'[j] # NoDoc)
                     => /\ WellFormed(disk'[j])
                        /\ Lifecycle(disk'[j]) = Lifecycle(disk[j])]_vars

(* One job has ended SUCCEEDED, another has ended FAILED because its last  *)
(* write failed, and a worker has taken a job after both.                  *)
C35_Witness ==
    \E j, k \in Indexed :
        /\ get_job(j).status = SUCCEEDED
        /\ get_job(k).status = FAILED
        /\ caught[k] = <<ErrWrite>>
        /\ policy_ran[k]
        /\ Len(started) > 2

----------------------------------------------------------------------------
(* Deleted jobs.                                                           *)

(* Job j was created and is gone: no index entry, no results directory, no *)
(* document.                                                               *)
Gone(j) ==
    /\ j < next_id
    /\ j \notin Indexed
    /\ get_job(j) = NoSummary
    /\ ~results_dir[j]
    /\ disk[j] = NoDoc

(* C36: a job is gone when delete_job has returned True for it, and a job  *)
(* that is gone stays gone in every later step, of a worker that holds it, *)
(* of a worker that dequeues it, of a caller, and of a restart.            *)
C36_DeletionFinal ==
    /\ [][\A j \in JobIds :
              (DeleteReturned /\ DeleteRet /\ DeleteArg = j) => Gone(j)']_vars
    /\ [][\A j \in JobIds : Gone(j) => Gone(j)']_vars

(* A job that was deleted while a worker was scanning it is gone after the *)
(* worker has ended it, and so is a job that was deleted in the queue and  *)
(* dequeued afterwards.                                                    *)
C36_Witness ==
    \E j, k \in JobIds :
        /\ Gone(j) /\ Gone(k)
        /\ tool_log[j] # <<>>
        /\ caught[j] # <<>>
        /\ dequeued[k] = 1 /\ tool_log[k] = <<>> /\ k \notin Range(started)
        /\ calls.ret /\ calls.deletes = 2
        /\ \A w \in Workers : worker[w].pc = "idle"

(* Some worker takes identifier j from the queue in this step.             *)
Dequeues(j) == dequeued'[j] = dequeued[j] + 1

(* C37: the step in which a worker dequeues an identifier that was deleted *)
(* while it was in the queue invokes no tool, leaves every job's record,   *)
(* document and directories as they were, leaves active_jobs at its value  *)
(* of before, and leaves the worker waiting on the queue, of which only    *)
(* the head is gone.                                                       *)
C37_DequeueDeleted ==
    [][\A j \in JobIds :
          (Dequeues(j) /\ j \notin Indexed) =>
              /\ UNCHANGED <<tool_log, started, policy_ran>>
              /\ UNCHANGED <<jobs, summary, disk, upload_dir, results_dir, caught>>
              /\ active_jobs' = active_jobs
              /\ worker' = worker
              /\ job_queue' = Tail(job_queue)]_vars

(* An identifier deleted in the queue was dequeued, and the job created    *)
(* after it was then taken from the queue and scanned to its end.          *)
C37_Witness ==
    \E k, j \in JobIds :
        /\ k < j
        /\ Gone(k) /\ dequeued[k] = 1 /\ tool_log[k] = <<>>
        /\ dequeued[j] = 1 /\ j \in Indexed /\ tool_log[j] # <<>>
        /\ summary[j].status = SUCCEEDED
        /\ active_jobs = 0

(* C38: a call of delete_job that returns False leaves the job's upload    *)
(* directory, its results directory with the document in it, and its index *)
(* entry exactly as they were before the call.                             *)
C38_DeleteAllOrNothing ==
    [][\A j \in JobIds :
          (DeleteReturned /\ ~DeleteRet /\ DeleteArg = j) =>
              /\ upload_dir'[j] = upload_dir[j]
              /\ results_dir'[j] = results_dir[j]
              /\ disk'[j] = disk[j]
              /\ (j \in Range(jobs')) = (j \in Range(jobs))
              /\ get_job(j)' = get_job(j)]_vars

(* The limits a caller passes, zero among them.                            *)
LimitsFromZero == 0..(MaxJobs + 1)

(* C39: for every limit of zero or more, list_jobs returns as many items   *)
(* as the smaller of the limit and the number of jobs in the index; for a  *)
(* limit of zero it returns the empty sequence.                            *)
C39_ListLength ==
    \A limit \in LimitsFromZero :
        Len(list_jobs(limit)) = Min(limit, Len(jobs))

====
